---- MODULE Spec2Model ----
(***************************************************************************)
(* Extraction, fusion and validation pipeline of the SNOMED CT extractor   *)
(* (snomed_extractor.py, snomed_validator.py).                             *)
(*                                                                         *)
(* Texts (terms, labels) and codes are sequences of one-character strings, *)
(* so that lower(), strip(), split(), substring tests and the difflib      *)
(* similarity are computed on the characters, as the code computes them.   *)
(* The contextual modifiers (negation, family, suspicion, antecedent) are  *)
(* copied through the pipeline unchanged and are left out of the records.  *)
(***************************************************************************)
EXTENDS Naturals, Integers, Sequences, FiniteSets, TLC

(***************************************************************************)
(* Text primitives: str.lower, str.strip, str.split, the `in` test on      *)
(* strings, str.startswith.                                                *)
(***************************************************************************)
LowerChar(ch) ==
    CASE ch = "A" -> "a"
      [] ch = "B" -> "b"
      [] ch = "C" -> "c"
      [] OTHER -> ch

Lower(s) == [i \in 1..Len(s) |-> LowerChar(s[i])]

IsSpace(ch) == ch = " "

RECURSIVE LStrip(_)
LStrip(s) == IF s # <<>> /\ IsSpace(Head(s)) THEN LStrip(Tail(s)) ELSE s

RECURSIVE RStrip(_)
RStrip(s) ==
    IF s # <<>> /\ IsSpace(s[Len(s)]) THEN RStrip(SubSeq(s, 1, Len(s) - 1)) ELSE s

Strip(s) == RStrip(LStrip(s))

\* set(s.split()): the maximal runs of non-space characters of s
Words(s) ==
    { SubSeq(s, i, j) : <<i, j>> \in
        { p \in (1..Len(s)) \X (1..Len(s)) :
            /\ p[1] <= p[2]
            /\ \A k \in p[1]..p[2] : ~IsSpace(s[k])
            /\ (p[1] = 1 \/ IsSpace(s[p[1] - 1]))
            /\ (p[2] = Len(s) \/ IsSpace(s[p[2] + 1])) } }

\* a in b, on strings
Contains(a, b) ==
    \E i \in 0..(Len(b) - Len(a)) : SubSeq(b, i + 1, i + Len(a)) = a

StartsWith(s, p) == Len(p) <= Len(s) /\ SubSeq(s, 1, Len(p)) = p

(***************************************************************************)
(* difflib.SequenceMatcher(None, a, b).ratio() = 2*M/T: M is the number of *)
(* matched characters found by taking the longest common block (earliest   *)
(* in a, then earliest in b) and recursing on both sides of it.  No        *)
(* character is junk: the popularity heuristic needs 200 characters.       *)
(***************************************************************************)
RECURSIVE CommonLen(_, _, _, _)
CommonLen(a, b, i, j) ==
    IF i <= Len(a) /\ j <= Len(b) /\ a[i] = b[j]
    THEN 1 + CommonLen(a, b, i + 1, j + 1)
    ELSE 0

MaxOf(S) == CHOOSE x \in S : \A y \in S : y <= x
MinOf(S) == CHOOSE x \in S : \A y \in S : x <= y

LongestMatch(a, b) ==
    LET best == MaxOf({0} \cup { CommonLen(a, b, i, j) : i \in 1..Len(a), j \in 1..Len(b) })
    IN  IF best = 0 THEN [i |-> 1, j |-> 1, size |-> 0]
        ELSE LET i0 == MinOf({ i \in 1..Len(a) :
                                 \E j \in 1..Len(b) : CommonLen(a, b, i, j) = best })
                 j0 == MinOf({ j \in 1..Len(b) : CommonLen(a, b, i0, j) = best })
             IN  [i |-> i0, j |-> j0, size |-> best]

RECURSIVE MatchCount(_, _)
MatchCount(a, b) ==
    IF a = <<>> \/ b = <<>> THEN 0
    ELSE LET blk == LongestMatch(a, b)
         IN  IF blk.size = 0 THEN 0
             ELSE blk.size
                  + MatchCount(SubSeq(a, 1, blk.i - 1), SubSeq(b, 1, blk.j - 1))
                  + MatchCount(SubSeq(a, blk.i + blk.size, Len(a)),
                               SubSeq(b, blk.j + blk.size, Len(b)))

(***************************************************************************)
(* calculate_math_score, as an exact fraction num/den:                     *)
(*   0.3 * ratio + 0.4 * word_overlap + 0.3 * contains                     *)
(* with ratio = 2M/T (1.0 when both texts are empty), word_overlap =       *)
(* |A & B| / max(|A|, |B|) (0 when both word sets are empty).              *)
(***************************************************************************)
calculate_math_score(gemini_term, official_term) ==
    LET a  == Lower(gemini_term)
        b  == Lower(official_term)
        T  == Len(a) + Len(b)
        rn == IF T = 0 THEN 1 ELSE 2 * MatchCount(a, b)
        rd == IF T = 0 THEN 1 ELSE T
        wa == Words(a)
        wb == Words(b)
        m  == IF Cardinality(wa) >= Cardinality(wb) THEN Cardinality(wa) ELSE Cardinality(wb)
        wn == IF m = 0 THEN 0 ELSE Cardinality(wa \cap wb)
        wd == IF m = 0 THEN 1 ELSE m
        ac == Strip(a)
        bc == Strip(b)
        c  == IF Contains(ac, bc) \/ Contains(bc, ac) THEN 1 ELSE 0
    IN  [num |-> 3 * rn * wd + 4 * wn * rd + 3 * c * rd * wd, den |-> 10 * rd * wd]

\* a strict comparison at the upper threshold
ScoreMoreThanHalf(s) == 2 * s.num > s.den

\* math_score >= 0.5 and math_score <= 0.01, on the fraction
ScoreAtLeastHalf(s) == 2 * s.num >= s.den
ScoreAtMostHundredth(s) == 100 * s.num <= s.den

(***************************************************************************)
(* Codes and the Python values None and 'UNKNOWN'.  `if x:` on a string    *)
(* or None is false for None and for the empty string.                     *)
(***************************************************************************)
None == <<"None">>
UNKNOWN == <<"U", "N", "K", "N", "O", "W", "N">>
Truthy(x) == x # None /\ x # <<>>

\* dict.get(key) and dict[key] = value, dicts being functions
DictGet(d, k) == IF k \in DOMAIN d THEN d[k] ELSE None
DictSet(d, k, x) == [y \in DOMAIN d \cup {k} |-> IF y = k THEN x ELSE d[y]]
EmptyDict == [y \in {} |-> None]

(***************************************************************************)
(* SNOMEDValidator.  The data source is the snapshot directory: the        *)
(* concept table (rows id, active) and the French description table (rows  *)
(* conceptId, active, languageCode, term); either file may be missing.     *)
(***************************************************************************)
NewValidator ==
    [valid_concepts |-> {}, french_terms |-> EmptyDict, term_to_code |-> EmptyDict,
     loaded |-> FALSE]

\* _load_concepts: [ok, v]
RECURSIVE ActiveIds(_)
ActiveIds(rows) ==
    IF rows = <<>> THEN {}
    ELSE (IF Head(rows).active = "1" THEN {Head(rows).id} ELSE {}) \cup ActiveIds(Tail(rows))

load_concepts(v, src) ==
    IF ~src.hasConcepts THEN [ok |-> FALSE, v |-> v]
    ELSE [ok |-> TRUE,
          v |-> [v EXCEPT !.valid_concepts = @ \cup ActiveIds(src.concepts)]]

\* the row loop without the test on valid_concepts
DescriptionRowAnyConcept(v, row) ==
    IF row.active = "1" /\ row.languageCode = "fr"
    THEN [v EXCEPT
            !.french_terms = IF row.conceptId \in DOMAIN @ THEN @
                             ELSE DictSet(@, row.conceptId, row.term),
            !.term_to_code = DictSet(@, Strip(Lower(row.term)), row.conceptId)]
    ELSE v

\* the body of the row loop of _load_french_descriptions
DescriptionRow(v, row) ==
    IF row.active = "1" /\ row.languageCode = "fr" /\ row.conceptId \in v.valid_concepts
    THEN [v EXCEPT
            !.french_terms = IF row.conceptId \in DOMAIN @ THEN @
                             ELSE DictSet(@, row.conceptId, row.term),
            !.term_to_code = DictSet(@, Strip(Lower(row.term)), row.conceptId)]
    ELSE v

RECURSIVE DescriptionRows(_, _)
DescriptionRows(v, rows) ==
    IF rows = <<>> THEN v ELSE DescriptionRows(DescriptionRow(v, Head(rows)), Tail(rows))

load_french_descriptions(v, src) ==
    IF ~src.hasDescriptions THEN [ok |-> FALSE, v |-> v]
    ELSE [ok |-> TRUE, v |-> DescriptionRows(v, src.descriptions)]

\* load_snomed_data: the validator after the call (v.loaded is the value returned)
load_snomed_data(v, src) ==
    IF v.loaded THEN v
    ELSE LET c == load_concepts(v, src)
         IN  IF ~c.ok THEN c.v
             ELSE LET d == load_french_descriptions(c.v, src)
                  IN  IF ~d.ok THEN d.v ELSE [d.v EXCEPT !.loaded = TRUE]

\* Every query starts with `if not self._loaded: if not self.load_snomed_data():`
\* AfterQuery is the validator a query leaves behind.
AfterQuery(v, src) == load_snomed_data(v, src)

validate_code(v, src, sctid) ==
    LET w == AfterQuery(v, src) IN w.loaded /\ sctid \in w.valid_concepts

get_french_term(v, src, sctid) ==
    LET w == AfterQuery(v, src) IN IF ~w.loaded THEN None ELSE DictGet(w.french_terms, sctid)

find_code_by_term(v, src, term) ==
    LET w == AfterQuery(v, src)
    IN  IF ~w.loaded THEN None ELSE DictGet(w.term_to_code, Strip(Lower(term)))

find_exact_term_code(v, src, term) ==
    LET w == AfterQuery(v, src)
    IN  IF ~w.loaded THEN None ELSE DictGet(w.term_to_code, Strip(Lower(term)))

find_closest_code(v, src, term) == find_code_by_term(v, src, term)

(***************************************************************************)
(* The V2 validation cascade for one term_data (lines 599-644): the record *)
(* appended to `validated`: <<record>>, or <<>> when the candidate is      *)
(* dropped.                                                                *)
(***************************************************************************)
Record(term, code, snomed_term) ==
    [term |-> term, snomed_code |-> code, snomed_term |-> snomed_term]

\* the cascade with the store's label in place of the original text on an exact match
ValidateTermOfficialLabel(v, src, term_data) ==
    LET term == term_data.term
        exact_code == find_exact_term_code(v, src, term)
        gemini_code == term_data.snomed_code
        resolved ==
            IF Truthy(exact_code) THEN <<exact_code, get_french_term(v, src, exact_code)>>
            ELSE IF gemini_code # UNKNOWN /\ validate_code(v, src, gemini_code)
                 THEN <<gemini_code, get_french_term(v, src, gemini_code)>>
                 ELSE <<None, None>>
    IN  IF Truthy(resolved[1]) /\ Truthy(resolved[2])
        THEN <<Record(term, resolved[1], resolved[2])>>
        ELSE <<>>

\* the cascade accepting a valid code without a French label under the original text
ValidateTermKeepUnlabelled(v, src, term_data) ==
    LET term == term_data.term
        exact_code == find_exact_term_code(v, src, term)
        gemini_code == term_data.snomed_code
        label == get_french_term(v, src, gemini_code)
        resolved ==
            IF Truthy(exact_code) THEN <<exact_code, term>>
            ELSE IF gemini_code # UNKNOWN /\ validate_code(v, src, gemini_code)
                 THEN <<gemini_code, IF Truthy(label) THEN label ELSE term>>
                 ELSE <<None, None>>
    IN  IF Truthy(resolved[1]) /\ Truthy(resolved[2])
        THEN <<Record(term, resolved[1], resolved[2])>>
        ELSE <<>>

\* the cascade with the oracle's code tried before the exact match
ValidateTermOracleFirst(v, src, term_data) ==
    LET term == term_data.term
        exact_code == find_exact_term_code(v, src, term)
        gemini_code == term_data.snomed_code
        resolved ==
            IF gemini_code # UNKNOWN /\ validate_code(v, src, gemini_code)
            THEN <<gemini_code, get_french_term(v, src, gemini_code)>>
            ELSE IF Truthy(exact_code) THEN <<exact_code, term>>
                 ELSE <<None, None>>
    IN  IF Truthy(resolved[1]) /\ Truthy(resolved[2])
        THEN <<Record(term, resolved[1], resolved[2])>>
        ELSE <<>>

ValidateTerm(v, src, term_data) ==
    LET term == term_data.term
        exact_code == find_exact_term_code(v, src, term)
        gemini_code == term_data.snomed_code
        closest == find_closest_code(v, src, term)
        resolved ==
            IF Truthy(exact_code) THEN <<exact_code, term>>
            ELSE IF gemini_code # UNKNOWN /\ validate_code(v, src, gemini_code)
                 THEN <<gemini_code, get_french_term(v, src, gemini_code)>>
                 ELSE IF Truthy(closest)
                      THEN <<closest, get_french_term(v, src, closest)>>
                      ELSE <<None, None>>
    IN  IF Truthy(resolved[1]) /\ Truthy(resolved[2])
        THEN <<Record(term, resolved[1], resolved[2])>>
        ELSE <<>>

\* the `validated` list of one run: the records of all_terms, in order
RECURSIVE ValidateRun(_, _, _)
ValidateRun(v, src, all_terms) ==
    IF all_terms = <<>> THEN <<>>
    ELSE ValidateTerm(v, src, Head(all_terms)) \o ValidateRun(v, src, Tail(all_terms))

(***************************************************************************)
(* _validate_semantic_coherence_batch.  A result is the dict built for one *)
(* pair; confidences are fractions.  Python index i is position i + 1.     *)
(***************************************************************************)
Frac(n, d) == [num |-> n, den |-> d]

\* lines 1051-1084: the result of the mathematical phase for one pair
MathResult(pair) ==
    LET math_score == calculate_math_score(pair[1], pair[2])
    IN  IF ScoreAtLeastHalf(math_score)
        THEN [valid |-> TRUE, confidence |-> math_score, method |-> "mathematical",
              reason |-> "Score math eleve"]
        ELSE IF ScoreAtMostHundredth(math_score)
             THEN [valid |-> FALSE, confidence |-> math_score, method |-> "mathematical",
                   reason |-> "Score math tres bas"]
             ELSE [valid |-> FALSE, confidence |-> Frac(0, 1), method |-> "hybrid",
                   reason |-> "Score math ambigu"]

MathResults(term_pairs) == [i \in 1..Len(term_pairs) |-> MathResult(term_pairs[i])]

\* llm_indices: the positions appended at line 1081, in increasing order
RECURSIVE SelectIndices(_, _)
SelectIndices(results, i) ==
    IF i > Len(results) THEN <<>>
    ELSE (IF results[i].method = "hybrid" THEN <<i>> ELSE <<>>)
         \o SelectIndices(results, i + 1)

LlmIndices(term_pairs) == SelectIndices(MathResults(term_pairs), 1)

\* only the first ambiguous pair sent
LlmCasesFirst(term_pairs) ==
    LET idx == LlmIndices(term_pairs) IN [b \in 1..(IF idx = <<>> THEN 0 ELSE 1) |-> term_pairs[idx[b]]]

LlmCases(term_pairs) ==
    LET idx == LlmIndices(term_pairs) IN [b \in 1..Len(idx) |-> term_pairs[idx[b]]]

(***************************************************************************)
(* llm_validate_batch (lines 948-1039) on n ambiguous pairs.  The oracle's *)
(* reply is one of: "raises" (generate_content or response.text raises),   *)
(* "no_json" (no {...} in the text), "bad_json" (json.loads raises         *)
(* JSONDecodeError), "json" (decoded; validations is the list of entries). *)
(* An entry carries paire (a set: empty for null or absent, else the       *)
(* number, 1-based) and meme_concept ("true", "false", "null").            *)
(***************************************************************************)
LlmVerdict(valid, reason) ==
    [valid |-> valid, confidence |-> IF valid THEN Frac(1, 1) ELSE Frac(0, 1),
     reason |-> reason]

\* lines 996-1017: the loop over the validations
RECURSIVE BatchEntries(_, _, _)
BatchEntries(batch_results, validations, n) ==
    IF validations = <<>> THEN batch_results
    ELSE LET validation == Head(validations)
             next ==
                IF validation.paire # {} /\ validation.meme_concept # "null"
                THEN LET paire_num == CHOOSE x \in validation.paire : TRUE
                     IN  IF 1 <= paire_num /\ paire_num <= n
                         THEN DictSet(batch_results, paire_num,
                                IF validation.meme_concept = "true"
                                THEN LlmVerdict(TRUE, "Concept identique")
                                ELSE LlmVerdict(FALSE, "Concept different"))
                         ELSE batch_results
                ELSE batch_results
         IN  BatchEntries(next, Tail(validations), n)

\* the batch with the pairs missing from the reply accepted
llm_validate_batch_open(reply, n) ==
    IF n = 0 THEN EmptyDict
    ELSE IF reply.kind # "json"
         THEN [b \in 1..n |-> LlmVerdict(FALSE, "Erreur")]
    ELSE LET batch_results == BatchEntries(EmptyDict, reply.validations, n)
         IN  [b \in 1..n |->
                IF b \in DOMAIN batch_results THEN batch_results[b]
                ELSE LlmVerdict(TRUE, "Paire non trouvee dans la reponse")]

llm_validate_batch(reply, n) ==
    IF n = 0 THEN EmptyDict
    ELSE IF reply.kind = "raises"
         THEN [b \in 1..n |-> LlmVerdict(FALSE, "Erreur LLM")]
    ELSE IF reply.kind = "no_json"
         THEN [b \in 1..n |-> LlmVerdict(FALSE, "Echec parsing JSON")]
    ELSE IF reply.kind = "bad_json"
         THEN [b \in 1..n |-> LlmVerdict(FALSE, "Erreur JSON")]
    ELSE LET batch_results == BatchEntries(EmptyDict, reply.validations, n)
         IN  [b \in 1..n |->
                IF b \in DOMAIN batch_results THEN batch_results[b]
                ELSE LlmVerdict(FALSE, "Paire non trouvee dans la reponse")]

\* the batch results written at the batch positions
ApplyLlmByPosition(math_results, llm_indices, llm_batch_results) ==
    [i \in 1..Len(math_results) |->
        IF i \in 1..Len(llm_indices) /\ i \in DOMAIN llm_batch_results
        THEN [math_results[i] EXCEPT !.valid = llm_batch_results[i].valid,
                                     !.confidence = llm_batch_results[i].confidence,
                                     !.reason = llm_batch_results[i].reason]
        ELSE math_results[i]]

\* lines 1096-1104: the results after the update with the batch results
ApplyLlm(math_results, llm_indices, llm_batch_results) ==
    [i \in 1..Len(math_results) |->
        IF \E b \in 1..Len(llm_indices) : llm_indices[b] = i /\ b \in DOMAIN llm_batch_results
        THEN LET b == CHOOSE b \in 1..Len(llm_indices) : llm_indices[b] = i
                 llm_result == llm_batch_results[b]
             IN  [math_results[i] EXCEPT !.valid = llm_result.valid,
                                         !.confidence = llm_result.confidence,
                                         !.reason = llm_result.reason]
        ELSE math_results[i]]

(***************************************************************************)
(* _categorize_by_snomed_code: the first rule, in the order of the         *)
(* if/elif chain, one of whose prefixes the code starts with.              *)
(***************************************************************************)
P2(x, y) == <<x, y>>

FindingPrefixes ==
    { <<"2", "7", "1">>, P2("4", "0"), P2("3", "8"), P2("4", "1"), P2("2", "7"),
      P2("3", "6"), P2("2", "3"), P2("2", "5"), P2("4", "2") }
ProcedurePrefixes ==
    { P2("7", "1"), P2("7", "7"), P2("2", "3"), P2("1", "8"), P2("3", "8"),
      P2("8", "9"), P2("1", "7") }
BodyPrefixes ==
    { P2("5", "1"), P2("8", "1"), P2("1", "5"), P2("7", "9"), P2("2", "4"),
      P2("3", "6"), P2("1", "2"), P2("9", "1") }
ObservablePrefixes == { P2("3", "6"), P2("2", "4"), P2("2", "5") }
SubstancePrefixes == { P2("4", "4"), P2("3", "7"), P2("3", "9"), P2("4", "1") }

HasPrefix(code, prefixes) == \E p \in prefixes : StartsWith(code, p)

\* the chain with the procedure rule tested before the finding rule
categorize_procedure_first(snomed_code) ==
    IF HasPrefix(snomed_code, ProcedurePrefixes) THEN "Procedure"
    ELSE IF HasPrefix(snomed_code, FindingPrefixes) THEN "Clinical finding"
    ELSE IF HasPrefix(snomed_code, BodyPrefixes) THEN "Body structure"
    ELSE IF HasPrefix(snomed_code, ObservablePrefixes) THEN "Observable entity"
    ELSE IF HasPrefix(snomed_code, SubstancePrefixes) THEN "Substance"
    ELSE "Clinical finding"

categorize_by_snomed_code(snomed_code) ==
    IF HasPrefix(snomed_code, FindingPrefixes) THEN "Clinical finding"
    ELSE IF HasPrefix(snomed_code, ProcedurePrefixes) THEN "Procedure"
    ELSE IF HasPrefix(snomed_code, BodyPrefixes) THEN "Body structure"
    ELSE IF HasPrefix(snomed_code, ObservablePrefixes) THEN "Observable entity"
    ELSE IF HasPrefix(snomed_code, SubstancePrefixes) THEN "Substance"
    ELSE "Clinical finding"

(***************************************************************************)
(* extract_snomed_info + extract_medical_entities: the oracle's concepts   *)
(* are sorted into findings, procedures and body structures by their       *)
(* categorie (others are ignored), and the V2 pipeline reads them back in  *)
(* that order into all_terms (lines 558-587).                              *)
(***************************************************************************)
RECURSIVE OfCategory(_, _)
OfCategory(concepts, cat) ==
    IF concepts = <<>> THEN <<>>
    ELSE (IF Head(concepts).categorie = cat
          THEN <<[term |-> Head(concepts).concept, snomed_code |-> Head(concepts).code,
                  category |-> cat]>>
          ELSE <<>>) \o OfCategory(Tail(concepts), cat)

\* what extract_medical_entities returns for the concepts of one reply
MedicalEntities(concepts) ==
    [findings |-> OfCategory(concepts, "clinical_finding"),
     procedures |-> OfCategory(concepts, "procedure"),
     body_structures |-> OfCategory(concepts, "body_structure")]

\* all_terms of lines 551-587
AllTerms(entities) == entities.findings \o entities.procedures \o entities.body_structures

(***************************************************************************)
(* Phase 3 (lines 661-668): unique_terms, a dict keyed by code, as the     *)
(* sequence of its values in insertion order.                              *)
(***************************************************************************)
Codes(records) == { records[k].snomed_code : k \in 1..Len(records) }

\* the fusion without the test on the code
FuseAll(unique_terms, all_validated_terms) == unique_terms \o all_validated_terms

RECURSIVE Fuse(_, _)
Fuse(unique_terms, all_validated_terms) ==
    IF all_validated_terms = <<>> THEN unique_terms
    ELSE LET term_data == Head(all_validated_terms)
         IN  Fuse(IF term_data.snomed_code \notin Codes(unique_terms)
                  THEN Append(unique_terms, term_data)
                  ELSE unique_terms,
                  Tail(all_validated_terms))

\* the loop of line 549 left at the first extraction without validated records
RECURSIVE ConcatUntilEmpty(_, _)
ConcatUntilEmpty(lists, order) ==
    IF order = <<>> \/ lists[Head(order)] = <<>> THEN <<>>
    ELSE lists[Head(order)] \o ConcatUntilEmpty(lists, Tail(order))

\* all_validated_terms: the validated lists in the order of the loop of line 549
RECURSIVE Concat(_, _)
Concat(lists, order) ==
    IF order = <<>> THEN <<>> ELSE lists[Head(order)] \o Concat(lists, Tail(order))

(***************************************************************************)
(* Phase 4 (lines 677-774).                                                *)
(***************************************************************************)
RECURSIVE SemanticPairs(_)
SemanticPairs(unique_terms) ==
    IF unique_terms = <<>> THEN <<>>
    ELSE LET term_data == Head(unique_terms)
         IN  (IF Lower(term_data.term) # Lower(term_data.snomed_term)
              THEN <<<<term_data.term, term_data.snomed_term>>>>
              ELSE <<>>) \o SemanticPairs(Tail(unique_terms))

PairKey(original_term, snomed_term) == <<Lower(original_term), Lower(snomed_term)>>

\* lines 711-714: validation_results, keyed by the lowercased pair; a later
\* pair with the same key overwrites the earlier one
RECURSIVE ValidationResults(_, _, _)
ValidationResults(d, semantic_pairs, semantic_results) ==
    IF semantic_pairs = <<>> THEN d
    ELSE ValidationResults(
            DictSet(d, PairKey(Head(semantic_pairs)[1], Head(semantic_pairs)[2]),
                    Head(semantic_results)),
            Tail(semantic_pairs), Tail(semantic_results))

\* the entity built at lines 689-698, 737-746 and 764-773; with_guard is the
\* "GARDE-FOU" of lines 734 and 761, absent from the branch without pairs
Entity(v, src, term_data, with_guard) ==
    [term |-> term_data.term,
     snomed_code |-> term_data.snomed_code,
     snomed_term |->
        IF with_guard /\ find_exact_term_code(v, src, term_data.term) = term_data.snomed_code
        THEN term_data.term ELSE term_data.snomed_term,
     category |-> categorize_by_snomed_code(term_data.snomed_code)]

RECURSIVE EntitiesOf(_, _, _)
EntitiesOf(v, src, unique_terms) ==
    IF unique_terms = <<>> THEN <<>>
    ELSE <<Entity(v, src, Head(unique_terms), FALSE)>> \o EntitiesOf(v, src, Tail(unique_terms))

\* the records without a validation result rejected
RECURSIVE ApplySemanticScoredOnly(_, _, _, _)
ApplySemanticScoredOnly(v, src, unique_terms, validation_results) ==
    IF unique_terms = <<>> THEN <<>>
    ELSE LET term_data == Head(unique_terms)
             pair_key == PairKey(term_data.term, term_data.snomed_term)
             kept == IF pair_key \in DOMAIN validation_results
                     THEN validation_results[pair_key].valid
                     ELSE FALSE
         IN  (IF kept THEN <<Entity(v, src, term_data, TRUE)>> ELSE <<>>)
             \o ApplySemanticScoredOnly(v, src, Tail(unique_terms), validation_results)

\* lines 717-774: final_validated of the branch with semantic pairs
RECURSIVE ApplySemantic(_, _, _, _)
ApplySemantic(v, src, unique_terms, validation_results) ==
    IF unique_terms = <<>> THEN <<>>
    ELSE LET term_data == Head(unique_terms)
             pair_key == PairKey(term_data.term, term_data.snomed_term)
             kept == IF pair_key \in DOMAIN validation_results
                     THEN validation_results[pair_key].valid
                     ELSE TRUE
         IN  (IF kept THEN <<Entity(v, src, term_data, TRUE)>> ELSE <<>>)
             \o ApplySemantic(v, src, Tail(unique_terms), validation_results)

(***************************************************************************)
(* Final deduplication by original term (lines 781-811).                   *)
(***************************************************************************)
RECURSIVE RemoveFirst(_, _)
RemoveFirst(list, x) ==
    IF list = <<>> THEN <<>>
    ELSE IF Head(list) = x THEN Tail(list)
    ELSE <<Head(list)>> \o RemoveFirst(Tail(list), x)

\* the loop body that never replaces the record seen first
DedupStepKeepFirst(st, entity) ==
    LET original_term == Lower(entity.term)
    IN  IF original_term \notin DOMAIN st.seen_terms
        THEN [seen_terms |-> DictSet(st.seen_terms, original_term, entity),
              final_deduplicated |-> Append(st.final_deduplicated, entity)]
        ELSE st

DedupStep(st, entity) ==
    LET original_term == Lower(entity.term)
        snomed_term == Lower(entity.snomed_term)
    IN  IF original_term \notin DOMAIN st.seen_terms
        THEN [seen_terms |-> DictSet(st.seen_terms, original_term, entity),
              final_deduplicated |-> Append(st.final_deduplicated, entity)]
        ELSE LET existing_entity == st.seen_terms[original_term]
                 existing_snomed == Lower(existing_entity.snomed_term)
             IN  IF original_term = snomed_term /\ original_term # existing_snomed
                 THEN [seen_terms |-> DictSet(st.seen_terms, original_term, entity),
                       final_deduplicated |->
                          Append(RemoveFirst(st.final_deduplicated, existing_entity), entity)]
                 ELSE st

RECURSIVE DedupLoop(_, _)
DedupLoop(st, final_validated) ==
    IF final_validated = <<>> THEN st
    ELSE DedupLoop(DedupStep(st, Head(final_validated)), Tail(final_validated))

\* no final deduplication
FinalDedupKeepAll(final_validated) == final_validated

FinalDedup(final_validated) ==
    DedupLoop([seen_terms |-> EmptyDict, final_deduplicated |-> <<>>],
              final_validated).final_deduplicated

(***************************************************************************)
(* Phase 5 (lines 826-857): the three entity lists of the result.          *)
(***************************************************************************)
FinalEntity(v, src, term_data) ==
    [term |-> term_data.term,
     snomed_code |-> term_data.snomed_code,
     snomed_term |->
        IF find_exact_term_code(v, src, term_data.term) = term_data.snomed_code
        THEN term_data.term ELSE term_data.snomed_term,
     category |-> categorize_by_snomed_code(term_data.snomed_code)]

\* 'finding' in category.lower() or 'disorder' in ..., elif 'procedure' in ..., else
ListOf(category) ==
    IF category = "Clinical finding" THEN "findings"
    ELSE IF category = "Procedure" THEN "procedures"
    ELSE "body_structures"

RECURSIVE Partition(_, _, _, _)
Partition(v, src, final_validated, list) ==
    IF final_validated = <<>> THEN <<>>
    ELSE LET entity == FinalEntity(v, src, Head(final_validated))
         IN  (IF ListOf(entity.category) = list THEN <<entity>> ELSE <<>>)
             \o Partition(v, src, Tail(final_validated), list)

(***************************************************************************)
(* extract_triple_with_validation_fusion (V1): validation of one           *)
(* extraction (lines 394-404), deduplication by code (lines 420-430) and   *)
(* the lists by class (lines 439-447).                                     *)
(***************************************************************************)
RECURSIVE V1Valid(_, _, _)
V1Valid(v, src, all_items) ==
    IF all_items = <<>> THEN <<>>
    ELSE (IF validate_code(v, src, Head(all_items).snomed_code)
          THEN <<Head(all_items)>> ELSE <<>>) \o V1Valid(v, src, Tail(all_items))

RECURSIVE V1Dedup(_, _)
V1Dedup(unique_valid_items, all_valid_items) ==
    IF all_valid_items = <<>> THEN unique_valid_items
    ELSE LET item == Head(all_valid_items)
         IN  V1Dedup(IF Truthy(item.snomed_code)
                        /\ item.snomed_code \notin Codes(unique_valid_items)
                     THEN Append(unique_valid_items, item)
                     ELSE unique_valid_items,
                     Tail(all_valid_items))

RECURSIVE OfClass(_, _)
OfClass(items, cat) ==
    IF items = <<>> THEN <<>>
    ELSE (IF Head(items).category = cat THEN <<Head(items)>> ELSE <<>>)
         \o OfClass(Tail(items), cat)

(***************************************************************************)
(* Bounds and the inputs of the model.                                     *)
(***************************************************************************)
\* the three extractions of lines 532-536 (and of the loop of line 386)
NumRuns == 3
Runs == 1..NumRuns

\* concepts returned by the oracle over the three extractions of one execution
MaxConcepts == 2
\* entries in the validations list of an arbitration reply
MaxEntries == 2
\* pairs given to one call of the semantic filter
MaxPairs == 2
\* length of the texts scored one against the other
MaxLen == 2

c38 == <<"3", "8">>
c71 == <<"7", "1">>
c51 == <<"5", "1">>

tAB == <<"a", "b">>
tABup == <<"A", "B">>
tAC == <<"a", "c">>
tACup == <<"A", "C", " ">>
tA == <<"a">>
tB == <<"b">>
tAsB == <<"a", " ", "b">>

ConceptRow(id, active) == [id |-> id, active |-> active]
DescRow(id, active, lang, term) ==
    [conceptId |-> id, active |-> active, languageCode |-> lang, term |-> term]

\* snapshot directories: two loadable ones, one without the concept table, one
\* without the French description table
SrcA ==
    [hasConcepts |-> TRUE, hasDescriptions |-> TRUE,
     concepts |-> <<ConceptRow(c38, "1"), ConceptRow(c71, "1"), ConceptRow(c51, "0")>>,
     descriptions |-> <<DescRow(c38, "1", "fr", tAC), DescRow(c71, "1", "fr", tAC),
                        DescRow(c51, "1", "fr", tAB), DescRow(c38, "0", "fr", tAB),
                        DescRow(c38, "1", "en", tAB)>>]
SrcB ==
    [hasConcepts |-> TRUE, hasDescriptions |-> TRUE,
     concepts |-> <<ConceptRow(c38, "1"), ConceptRow(c71, "1"), ConceptRow(c51, "1")>>,
     descriptions |-> <<DescRow(c51, "1", "fr", tB), DescRow(c38, "1", "fr", tAsB)>>]
SrcNoConcepts == [SrcA EXCEPT !.hasConcepts = FALSE]
SrcNoDescriptions == [SrcA EXCEPT !.hasDescriptions = FALSE]
Sources == {SrcA, SrcB, SrcNoConcepts, SrcNoDescriptions}

Concept(term, code, cat) == [concept |-> term, code |-> code, categorie |-> cat]

\* what the oracle may name in a reply
ConceptUniverse ==
    { Concept(tAB, c38, "clinical_finding"), Concept(tABup, c71, "procedure"),
      Concept(tACup, c51, "clinical_finding"), Concept(tA, c38, "body_structure") }

SeqsUpTo(S, n) == UNION { [1..k -> S] : k \in 0..n }

\* arbitration replies: every list of at most MaxEntries entries naming pair
\* numbers from 0 to n + 1, plus an entry without number and one without verdict
Entries(n) ==
    { [paire |-> {p}, meme_concept |-> m] : p \in 0..(n + 1), m \in {"true", "false"} }
    \cup { [paire |-> {}, meme_concept |-> "true"], [paire |-> {1}, meme_concept |-> "null"] }

JsonReply(validations) == [kind |-> "json", validations |-> validations]
FailedReply(kind) == [kind |-> kind, validations |-> <<>>]

\* the well-formed reply that gives verdict[b] ("true", "false" or "absent") for
\* batch position b, entries in increasing order of pair number
RECURSIVE VerdictEntries(_, _)
VerdictEntries(verdict, b) ==
    IF b > Len(verdict) THEN <<>>
    ELSE (IF verdict[b] = "absent" THEN <<>>
          ELSE <<[paire |-> {b}, meme_concept |-> verdict[b]]>>)
         \o VerdictEntries(verdict, b + 1)

VerdictReplies(n) ==
    { JsonReply(VerdictEntries(verdict, 1)) : verdict \in [1..n -> {"true", "false", "absent"}] }

(***************************************************************************)
(* State.                                                                  *)
(*   pc              position in the pipeline (or in the filter call)      *)
(*   variant         "v1": extract_triple_with_validation_fusion,          *)
(*                   "v2": extract_triple_with_validation_fusion_v2        *)
(*   src             the snapshot directory                                *)
(*   validator       the SNOMEDValidator of the execution                  *)
(*   results         per run, what extract_medical_entities returned       *)
(*   completion      the runs in the order in which they completed (V1:    *)
(*                   the iterations done)                                  *)
(*   failed          the runs whose extraction failed (admission denied,   *)
(*                   safety block, no text, malformed reply, exception)    *)
(*   validated       per run, its `validated` list                         *)
(*   unique_terms    the fusion pool, in insertion order                   *)
(*   term_pairs      semantic_pairs / the term_pairs of the filter call    *)
(*   math_results    results of the mathematical phase                     *)
(*   requests        the arbitration requests made: the pairs of each one  *)
(*   reply           the oracle's reply to the arbitration request         *)
(*   semantic_results  the dict returned by the filter, by position        *)
(*   final_validated final_validated                                       *)
(*   semantic_time   TRUE once the local variable semantic_time is bound   *)
(*   outcome         what the pipeline returned or raised                  *)
(*   usage_data      the calls recorded by the security manager for the    *)
(*                   current day and the current hour                      *)
(*   thread          per extraction thread of V2, its position in          *)
(*                   extract_snomed_info and the counters it has read      *)
(*   calls           per extraction (1..3) and for the main flow with the  *)
(*                   arbitration (0): the answer of the admission check    *)
(*                   made for it, the oracle requests issued and the       *)
(*                   record_api_call made                                  *)
(*   queries         the calls made to the validator's public methods one  *)
(*                   by one, each with its answer, the table files it      *)
(*                   opened and whether it changed the validator's data    *)
(* Spec takes the answers of the security manager as inputs and leaves     *)
(* usage_data, thread and calls alone; SpecSecurity follows them.  Spec    *)
(* applies the validator's queries inside the cascade; SpecStore makes     *)
(* them one by one and logs them in queries.                               *)
(***************************************************************************)
VARIABLES pc, variant, src, validator, results, completion, failed, validated,
          unique_terms, term_pairs, math_results, reply, semantic_results,
          final_validated, semantic_time, outcome, usage_data, thread, calls, requests,
          queries

vars == <<pc, variant, src, validator, results, completion, failed, validated,
          unique_terms, term_pairs, math_results, reply, semantic_results,
          final_validated, semantic_time, outcome, usage_data, thread, calls, requests,
          queries>>

secVars == <<usage_data, thread, calls>>

storeVars == <<src, validator>>
runVars == <<results, completion, failed>>
filterVars == <<term_pairs, math_results, reply, semantic_results, requests>>

EmptyEntities == [findings |-> <<>>, procedures |-> <<>>, body_structures |-> <<>>]
NoStatistics ==
    [extractions |-> <<>>, before_fusion |-> 0, after_fusion |-> 0, after_semantic |-> 0,
     fusion_gain |-> 0, semantic_filtered |-> 0]
NoOutcome == [kind |-> "none", entities |-> EmptyEntities, statistics |-> NoStatistics]

\* no call recorded, no thread started, no admission check and no request made
NoUsage == [daily |-> 0, hourly |-> 0]
NoThreads == [i \in Runs |-> [at |-> "idle", read |-> NoUsage]]
NoCalls == [u \in 0..NumRuns |-> [admission |-> "none", requests |-> 0, writes |-> 0]]

Init ==
    /\ pc = "start"
    /\ variant \in {"v1", "v2"}
    /\ src \in Sources
    /\ validator = NewValidator
    /\ results = [i \in Runs |-> EmptyEntities]
    /\ completion = <<>>
    /\ failed = {}
    /\ validated = [i \in Runs |-> <<>>]
    /\ unique_terms = <<>>
    /\ term_pairs = <<>>
    /\ math_results = <<>>
    /\ reply = FailedReply("none")
    /\ requests = <<>>
    /\ queries = <<>>
    /\ semantic_results = <<>>
    /\ final_validated = <<>>
    /\ semantic_time = FALSE
    /\ outcome = NoOutcome
    /\ usage_data = NoUsage
    /\ thread = NoThreads
    /\ calls = NoCalls

Completed == { completion[k] : k \in 1..Len(completion) }

ConceptsSoFar ==
    LET n(i) == Len(results[i].findings) + Len(results[i].procedures)
                + Len(results[i].body_structures)
    IN  n(1) + n(2) + n(3)

(***************************************************************************)
(* V2, lines 502-509: the admission check and the validator.               *)
(***************************************************************************)
Start ==
    /\ pc = "start" /\ variant = "v2"
    /\ pc' = "extracting"
    /\ UNCHANGED <<secVars, queries, variant, storeVars, runVars, validated, unique_terms, filterVars,
                   final_validated, semantic_time, outcome>>

\* _security_check() is false: return {"error": ...}
StartDenied ==
    /\ pc = "start" /\ variant = "v2"
    /\ pc' = "done"
    /\ outcome' = [NoOutcome EXCEPT !.kind = "error"]
    /\ UNCHANGED <<secVars, queries, variant, storeVars, runVars, validated, unique_terms, filterVars,
                   final_validated, semantic_time>>

(***************************************************************************)
(* Phase 1 (lines 515-536): the three extractions run in threads and       *)
(* complete in any order; asyncio.gather returns their results by position.*)
(* Run i completes with what extract_medical_entities returns: the         *)
(* entities of the reply, or empty lists for every failure, which          *)
(* extract_snomed_info turns into an empty extraction.                     *)
(***************************************************************************)
RunEnds(i, concepts) ==
    /\ pc = "extracting"
    /\ i \notin Completed
    /\ results' = [results EXCEPT ![i] = MedicalEntities(concepts)]
    /\ completion' = Append(completion, i)
    /\ UNCHANGED <<secVars, queries, pc, variant, storeVars, validated, unique_terms, filterVars,
                   final_validated, semantic_time, outcome>>

\* the reply is decoded: its concepts (possibly none)
RunReturnsConcepts(i) ==
    \E concepts \in SeqsUpTo(ConceptUniverse, MaxConcepts) :
        /\ ConceptsSoFar + Len(concepts) <= MaxConcepts
        /\ RunEnds(i, concepts)
        /\ UNCHANGED failed

\* every failure ends in _create_empty_extraction (or in parse_gemini_response's
\* {"concepts_medicaux": []}): the run returns empty lists
RunFails(i) ==
    /\ RunEnds(i, <<>>)
    /\ failed' = failed \cup {i}

\* can_make_request() is false inside extract_snomed_info (lines 91-95)
RunAdmissionDenied(i) == RunFails(i)
\* finish_reason == 2 (lines 111-113)
RunSafetyBlocked(i) == RunFails(i)
\* no candidate or no text in the response (lines 119-124)
RunNoText(i) == RunFails(i)
\* no JSON in the reply, or JSONDecodeError (lines 209-215)
RunMalformedReply(i) == RunFails(i)
\* generate_content raises (lines 197-199)
RunOracleRaises(i) == RunFails(i)

(***************************************************************************)
(* Phase 2 (lines 546-654): after gather, the runs are validated in the    *)
(* order of their position in `results`.                                   *)
(***************************************************************************)
\* the runs taken in the order of their completion
CompletionOrder(order) == order

\* the order of enumerate(results): asyncio.gather returns the results by position
RunOrder(order) == <<1, 2, 3>>

QueriesMade == \E i \in Runs : AllTerms(results[i]) # <<>>

ValidationPhase ==
    /\ pc = "extracting"
    /\ Completed = Runs
    /\ validated' = [i \in Runs |-> ValidateRun(validator, src, AllTerms(results[i]))]
    /\ validator' = IF QueriesMade THEN AfterQuery(validator, src) ELSE validator
    /\ pc' = "fusion"
    /\ UNCHANGED <<secVars, queries, variant, src, runVars, unique_terms, filterVars, final_validated,
                   semantic_time, outcome>>

(***************************************************************************)
(* Phase 3 (lines 656-671).                                                *)
(***************************************************************************)
FusionPhase ==
    /\ pc = "fusion"
    /\ unique_terms' = Fuse(<<>>, Concat(validated, RunOrder(completion)))
    /\ pc' = "semantic"
    /\ UNCHANGED <<secVars, queries, variant, storeVars, runVars, validated, filterVars, final_validated,
                   semantic_time, outcome>>

(***************************************************************************)
(* Phase 4 (lines 673-704).  Without semantic pairs the entities are built *)
(* at once; semantic_time, rejected_terms and the final deduplication      *)
(* belong to the other branch.  With pairs the filter scores them and, if  *)
(* some are ambiguous, asks the oracle once.  The order in which the runs  *)
(* completed and the runs that failed are no state of the program: they    *)
(* are kept until the pool is built and forgotten here.                    *)
(***************************************************************************)
SemanticPhase ==
    /\ pc = "semantic"
    /\ completion' = <<>>
    /\ failed' = {}
    /\ LET pairs == SemanticPairs(unique_terms)
       IN  /\ term_pairs' = pairs
           /\ IF pairs = <<>>
              THEN /\ final_validated' = EntitiesOf(validator, src, unique_terms)
                   /\ pc' = "phase5"
                   /\ UNCHANGED <<math_results, semantic_results>>
              ELSE /\ math_results' = MathResults(pairs)
                   /\ IF SelectIndices(math_results', 1) = <<>>
                      THEN /\ semantic_results' = math_results'
                           /\ pc' = "apply"
                      ELSE /\ pc' = "arbitration"
                           /\ UNCHANGED semantic_results
                   /\ UNCHANGED final_validated
    /\ UNCHANGED <<secVars, queries, variant, storeVars, results, validated, unique_terms, reply,
                   requests, semantic_time, outcome>>

Arbitrated(r) ==
    /\ pc = "arbitration"
    /\ requests' = Append(requests, LlmCases(term_pairs))
    /\ reply' = r
    /\ LET llm_indices == SelectIndices(math_results, 1)
       IN  semantic_results' =
              ApplyLlm(math_results, llm_indices, llm_validate_batch(r, Len(llm_indices)))
    /\ pc' = "apply"
    /\ UNCHANGED <<secVars, queries, variant, storeVars, runVars, validated, unique_terms, term_pairs,
                   math_results, final_validated, semantic_time, outcome>>

ArbitrationReplies ==
    \E r \in VerdictReplies(Len(SelectIndices(math_results, 1))) : Arbitrated(r)
ArbitrationNoJson == Arbitrated(FailedReply("no_json"))
ArbitrationBadJson == Arbitrated(FailedReply("bad_json"))
ArbitrationRaises == Arbitrated(FailedReply("raises"))

(***************************************************************************)
(* Lines 706-812: the results are applied to the pool, semantic_time is    *)
(* bound, and the entities are deduplicated by original term.              *)
(***************************************************************************)
ApplyPhase ==
    /\ pc = "apply"
    /\ final_validated' =
          FinalDedup(ApplySemantic(validator, src, unique_terms,
                        ValidationResults(EmptyDict, term_pairs, semantic_results)))
    /\ semantic_time' = TRUE
    /\ pc' = "phase5"
    /\ UNCHANGED <<secVars, queries, variant, storeVars, runVars, validated, unique_terms, filterVars,
                   outcome>>

(***************************************************************************)
(* Phase 5 (lines 821-919): the entity lists and the statistics.  Reading  *)
(* semantic_time at line 886 raises UnboundLocalError when it is unbound.  *)
(***************************************************************************)
ValidCount(i) == Len(validated[i])

Statistics ==
    LET max_individual == MaxOf({ ValidCount(i) : i \in Runs })
    IN  [extractions |-> [i \in Runs |-> <<i, ValidCount(i), Len(AllTerms(results[i]))>>],
         before_fusion |-> max_individual,
         after_fusion |-> Len(unique_terms),
         after_semantic |-> Len(final_validated),
         fusion_gain |-> Len(unique_terms) - max_individual,
         semantic_filtered |-> Len(unique_terms) - Len(final_validated)]

Phase5 ==
    /\ pc = "phase5"
    /\ outcome' =
          IF semantic_time
          THEN [kind |-> "result",
                entities |->
                    [findings |-> Partition(validator, src, final_validated, "findings"),
                     procedures |-> Partition(validator, src, final_validated, "procedures"),
                     body_structures |->
                        Partition(validator, src, final_validated, "body_structures")],
                statistics |-> Statistics]
          ELSE [NoOutcome EXCEPT !.kind = "UnboundLocalError"]
    /\ pc' = "done"
    /\ UNCHANGED <<secVars, queries, variant, storeVars, runVars, validated, unique_terms, filterVars,
                   final_validated, semantic_time>>

(***************************************************************************)
(* V1 (lines 363-484): three extractions one after the other, each         *)
(* validated at once with validate_code, then the deduplication by code.   *)
(***************************************************************************)
V1Start ==
    /\ pc = "start" /\ variant = "v1"
    /\ pc' = "v1_loop"
    /\ UNCHANGED <<secVars, queries, variant, storeVars, runVars, validated, unique_terms, filterVars,
                   final_validated, semantic_time, outcome>>

\* can_make_request() is false (lines 370-373): an empty extraction is returned
V1Denied ==
    /\ pc = "start" /\ variant = "v1"
    /\ pc' = "done"
    /\ outcome' = [NoOutcome EXCEPT !.kind = "extraction"]
    /\ UNCHANGED <<secVars, queries, variant, storeVars, runVars, validated, unique_terms, filterVars,
                   final_validated, semantic_time>>

V1Iteration ==
    /\ pc = "v1_loop"
    /\ Len(completion) < NumRuns
    /\ \E concepts \in SeqsUpTo(ConceptUniverse, MaxConcepts) :
         LET i == Len(completion) + 1
             all_items == AllTerms(MedicalEntities(concepts))
         IN  /\ ConceptsSoFar + Len(concepts) <= MaxConcepts
             /\ results' = [results EXCEPT ![i] = MedicalEntities(concepts)]
             /\ completion' = Append(completion, i)
             /\ validated' = [validated EXCEPT ![i] = V1Valid(validator, src, all_items)]
             /\ validator' = IF all_items # <<>> THEN AfterQuery(validator, src)
                             ELSE validator
    /\ UNCHANGED <<secVars, queries, pc, variant, src, failed, unique_terms, filterVars, final_validated,
                   semantic_time, outcome>>

V1Finish ==
    /\ pc = "v1_loop"
    /\ Len(completion) = NumRuns
    /\ LET unique_valid_items == V1Dedup(<<>>, Concat(validated, <<1, 2, 3>>))
       IN  /\ unique_terms' = unique_valid_items
           /\ outcome' =
                [kind |-> "extraction",
                 entities |->
                    [findings |-> OfClass(unique_valid_items, "clinical_finding"),
                     procedures |-> OfClass(unique_valid_items, "procedure"),
                     body_structures |-> OfClass(unique_valid_items, "body_structure")],
                 statistics |-> NoStatistics]
    /\ pc' = "done"
    /\ UNCHANGED <<secVars, queries, variant, storeVars, runVars, validated, filterVars, final_validated,
                   semantic_time>>

Next ==
    \/ Start
    \/ StartDenied
    \/ \E i \in Runs :
          \/ RunReturnsConcepts(i)
          \/ RunAdmissionDenied(i)
          \/ RunSafetyBlocked(i)
          \/ RunNoText(i)
          \/ RunMalformedReply(i)
          \/ RunOracleRaises(i)
    \/ ValidationPhase
    \/ FusionPhase
    \/ SemanticPhase
    \/ ArbitrationReplies
    \/ ArbitrationNoJson
    \/ ArbitrationBadJson
    \/ ArbitrationRaises
    \/ ApplyPhase
    \/ Phase5
    \/ V1Start
    \/ V1Denied
    \/ V1Iteration
    \/ V1Finish

Spec == Init /\ [][Next]_vars

(***************************************************************************)
(* One call of _validate_semantic_coherence_batch on its own: the          *)
(* mathematical phase (lines 1044-1084), then, if some pair is ambiguous,  *)
(* the oracle's reply and the update (lines 1086-1114).                    *)
(***************************************************************************)
pipelineVars ==
    <<secVars, queries, variant, src, validator, results, completion, failed, validated, unique_terms,
      final_validated, semantic_time, outcome>>

InitCall(pairs) ==
    /\ pc = "filter"
    /\ term_pairs = pairs
    /\ variant = "filter"
    /\ src = SrcA
    /\ validator = NewValidator
    /\ results = [i \in Runs |-> EmptyEntities]
    /\ completion = <<>>
    /\ failed = {}
    /\ validated = [i \in Runs |-> <<>>]
    /\ unique_terms = <<>>
    /\ math_results = <<>>
    /\ reply = FailedReply("none")
    /\ requests = <<>>
    /\ queries = <<>>
    /\ semantic_results = <<>>
    /\ final_validated = <<>>
    /\ semantic_time = FALSE
    /\ outcome = NoOutcome
    /\ usage_data = NoUsage
    /\ thread = NoThreads
    /\ calls = NoCalls

FilterMath ==
    /\ pc = "filter"
    /\ math_results' = MathResults(term_pairs)
    /\ IF SelectIndices(math_results', 1) = <<>>
       THEN /\ semantic_results' = math_results'
            /\ pc' = "filter_done"
       ELSE /\ pc' = "filter_llm"
            /\ UNCHANGED semantic_results
    /\ UNCHANGED <<term_pairs, reply, requests, pipelineVars>>

FilterReply(r) ==
    /\ pc = "filter_llm"
    /\ requests' = Append(requests, LlmCases(term_pairs))
    /\ reply' = r
    /\ LET llm_indices == SelectIndices(math_results, 1)
       IN  semantic_results' =
              ApplyLlm(math_results, llm_indices, llm_validate_batch(r, Len(llm_indices)))
    /\ pc' = "filter_done"
    /\ UNCHANGED <<term_pairs, math_results, pipelineVars>>

FilterReplyJson ==
    \E validations \in SeqsUpTo(Entries(Len(SelectIndices(math_results, 1))), MaxEntries) :
        FilterReply(JsonReply(validations))
FilterReplyNoJson == FilterReply(FailedReply("no_json"))
FilterReplyBadJson == FilterReply(FailedReply("bad_json"))
FilterReplyRaises == FilterReply(FailedReply("raises"))

\* pairs for the calls of SpecFilter: two ambiguous ones, one accepted and one
\* rejected by the score
PairUniverse == { <<tAB, tAC>>, <<tABup, tAsB>>, <<tA, tAC>>, <<tB, tAC>> }

InitFilter == \E pairs \in SeqsUpTo(PairUniverse, MaxPairs) : pairs # <<>> /\ InitCall(pairs)

NextFilter ==
    \/ FilterMath
    \/ FilterReplyJson
    \/ FilterReplyNoJson
    \/ FilterReplyBadJson
    \/ FilterReplyRaises

SpecFilter == InitFilter /\ [][NextFilter]_vars

(***************************************************************************)
(* The mathematical phase alone, on every pair of texts of at most MaxLen  *)
(* characters and on the three pairs whose scores are exactly 0.5, 0.01    *)
(* and 0.25.                                                               *)
(***************************************************************************)
Alphabet == {"a", "b", "A", " "}
Texts == SeqsUpTo(Alphabet, MaxLen)

\* 'c' followed by 29 times ch
Padded(ch) == [i \in 1..30 |-> IF i = 1 THEN "c" ELSE ch]
tAAAAAB == <<"a", "a", "a", "a", "a", "b">>
tAAAAAA == <<"a", "a", "a", "a", "a", "a">>

PairHalf == <<tAB, tA>>
PairHundredth == <<Padded("a"), Padded("b")>>
PairQuarter == <<tAAAAAB, tAAAAAA>>
BoundaryPairs == <<PairHalf, PairHundredth, PairQuarter>>

InitScore ==
    \E pairs \in { <<p>> : p \in Texts \X Texts } \cup { BoundaryPairs } : InitCall(pairs)

SpecScore == InitScore /\ [][FilterMath]_vars

(***************************************************************************)
(* APISecurityManager (api_security.py) and the places where the extractor *)
(* calls it.  The clock stays within one hour of one day, so the counters  *)
(* of the current day and the current hour are the two numbers of          *)
(* usage_data; the limits are those of config.py.                          *)
(***************************************************************************)
daily_limit == 200
hourly_limit == 40

\* distance of the counters from their limits when the pipeline starts
MaxHeadroom == 2

\* can_make_request (lines 62-78): the boolean returned
can_make_request(u) == ~(u.daily >= daily_limit) /\ ~(u.hourly >= hourly_limit)

\* the counters stored by lines 99-100 of record_api_call, from the counters read
Incremented(u) == [daily |-> u.daily + 1, hourly |-> u.hourly + 1]

\* what a successful extraction returns here
SecConcepts == <<Concept(tAB, c38, "clinical_finding")>>

Admitted(u, answer) == [calls EXCEPT ![u].admission = answer]
Requested(u) == [calls EXCEPT ![u].requests = @ + 1]
Written(u) == [calls EXCEPT ![u].writes = @ + 1]

contentVars ==
    <<queries, src, validator, validated, unique_terms, filterVars, final_validated, semantic_time>>

InitSecurity ==
    /\ pc = "start"
    /\ variant \in {"v1", "v2", "parallel"}
    /\ src = SrcA
    /\ validator = NewValidator
    /\ results = [i \in Runs |-> EmptyEntities]
    /\ completion = <<>>
    /\ failed = {}
    /\ validated = [i \in Runs |-> <<>>]
    /\ unique_terms = <<>>
    /\ term_pairs = <<>>
    /\ math_results = <<>>
    /\ reply = FailedReply("none")
    /\ requests = <<>>
    /\ queries = <<>>
    /\ semantic_results = <<>>
    /\ final_validated = <<>>
    /\ semantic_time = FALSE
    /\ outcome = NoOutcome
    /\ usage_data \in [daily : (daily_limit - MaxHeadroom)..daily_limit,
                       hourly : (hourly_limit - MaxHeadroom)..hourly_limit]
    /\ thread = NoThreads
    /\ calls = NoCalls

(***************************************************************************)
(* V2: _security_check (lines 503-504), then the three threads, each in    *)
(* extract_snomed_info: can_make_request (line 91), generate_content (line *)
(* 102), record_api_call (line 105).  The threads interleave between these *)
(* calls, and inside record_api_call between reading a counter and storing *)
(* it incremented (lines 99-100); no lock is taken.                        *)
(***************************************************************************)
SecStartV2 ==
    /\ pc = "start" /\ variant = "v2"
    /\ IF can_make_request(usage_data)
       THEN /\ calls' = Admitted(0, "approved")
            /\ pc' = "extracting"
            /\ UNCHANGED outcome
       ELSE /\ calls' = Admitted(0, "denied")
            /\ pc' = "done"
            /\ outcome' = [NoOutcome EXCEPT !.kind = "error"]
    /\ UNCHANGED <<variant, contentVars, runVars, usage_data, thread>>

ThreadEnds(i, concepts, ok) ==
    /\ thread' = [thread EXCEPT ![i].at = "done"]
    /\ results' = [results EXCEPT ![i] = MedicalEntities(concepts)]
    /\ completion' = Append(completion, i)
    /\ failed' = IF ok THEN failed ELSE failed \cup {i}

ThreadCheck(i) ==
    /\ pc = "extracting" /\ thread[i].at = "idle"
    /\ IF can_make_request(usage_data)
       THEN /\ calls' = Admitted(i, "approved")
            /\ thread' = [thread EXCEPT ![i] = [at |-> "call", read |-> usage_data]]
            /\ UNCHANGED runVars
       ELSE /\ calls' = Admitted(i, "denied")
            /\ thread' = [thread EXCEPT ![i] = [at |-> "done", read |-> usage_data]]
            /\ results' = [results EXCEPT ![i] = EmptyEntities]
            /\ completion' = Append(completion, i)
            /\ failed' = failed \cup {i}
    /\ UNCHANGED <<pc, variant, contentVars, outcome, usage_data>>

ThreadCallReturns(i) ==
    /\ pc = "extracting" /\ thread[i].at = "call"
    /\ calls' = Requested(i)
    /\ thread' = [thread EXCEPT ![i].at = "record"]
    /\ UNCHANGED <<pc, variant, contentVars, runVars, outcome, usage_data>>

ThreadCallRaises(i) ==
    /\ pc = "extracting" /\ thread[i].at = "call"
    /\ calls' = Requested(i)
    /\ ThreadEnds(i, <<>>, FALSE)
    /\ UNCHANGED <<pc, variant, contentVars, outcome, usage_data>>

ThreadRecordRead(i) ==
    /\ pc = "extracting" /\ thread[i].at = "record"
    /\ thread' = [thread EXCEPT ![i] = [at |-> "write", read |-> usage_data]]
    /\ UNCHANGED <<pc, variant, contentVars, runVars, outcome, usage_data, calls>>

ThreadRecordWrite(i) ==
    /\ pc = "extracting" /\ thread[i].at = "write"
    /\ usage_data' = Incremented(thread[i].read)
    /\ calls' = Written(i)
    /\ ThreadEnds(i, SecConcepts, TRUE)
    /\ UNCHANGED <<pc, variant, contentVars, outcome>>

\* asyncio.gather returns
SecGathered ==
    /\ pc = "extracting" /\ variant = "v2"
    /\ Completed = Runs
    /\ pc' = "gathered"
    /\ UNCHANGED <<variant, contentVars, runVars, outcome, secVars>>

\* llm_validate_batch (line 977), when the pool has ambiguous pairs
SecArbitration ==
    /\ pc = "gathered"
    /\ calls' = Requested(0)
    /\ pc' = "arbitrated"
    /\ UNCHANGED <<variant, contentVars, runVars, outcome, usage_data, thread>>

(***************************************************************************)
(* V1 (extract_triple_with_validation_fusion): a check at line 370, then   *)
(* three iterations in turn, each calling extract_snomed_info (check, call *)
(* and record as above, in one thread) and then record_api_call once more  *)
(* at line 391, whatever extract_snomed_info did.                          *)
(***************************************************************************)
Iteration == Len(completion) + 1

SecStartV1 ==
    /\ pc = "start" /\ variant = "v1"
    /\ IF can_make_request(usage_data)
       THEN /\ calls' = Admitted(0, "approved")
            /\ pc' = "v1_check"
            /\ UNCHANGED outcome
       ELSE /\ calls' = Admitted(0, "denied")
            /\ pc' = "done"
            /\ outcome' = [NoOutcome EXCEPT !.kind = "extraction"]
    /\ UNCHANGED <<variant, contentVars, runVars, usage_data, thread>>

V1Check ==
    /\ pc = "v1_check" /\ Iteration \in Runs
    /\ IF can_make_request(usage_data)
       THEN /\ calls' = Admitted(Iteration, "approved")
            /\ pc' = "v1_call"
       ELSE /\ calls' = Admitted(Iteration, "denied")
            /\ pc' = "v1_record"
    /\ UNCHANGED <<variant, contentVars, runVars, outcome, usage_data, thread>>

V1CallReturns ==
    /\ pc = "v1_call"
    /\ calls' = Requested(Iteration)
    /\ pc' = "v1_inner_record"
    /\ UNCHANGED <<variant, contentVars, runVars, outcome, usage_data, thread>>

V1CallRaises ==
    /\ pc = "v1_call"
    /\ calls' = Requested(Iteration)
    /\ pc' = "v1_record"
    /\ UNCHANGED <<variant, contentVars, runVars, outcome, usage_data, thread>>

\* line 105
V1InnerRecord ==
    /\ pc = "v1_inner_record"
    /\ usage_data' = Incremented(usage_data)
    /\ calls' = Written(Iteration)
    /\ pc' = "v1_record"
    /\ UNCHANGED <<variant, contentVars, runVars, outcome, thread>>

\* line 391; the extraction returned concepts iff line 105 was reached
V1OuterRecord ==
    /\ pc = "v1_record"
    /\ usage_data' = Incremented(usage_data)
    /\ calls' = Written(Iteration)
    /\ LET returned == calls[Iteration].writes > 0
       IN  /\ results' = [results EXCEPT ![Iteration] =
                              MedicalEntities(IF returned THEN SecConcepts ELSE <<>>)]
           /\ failed' = IF returned THEN failed ELSE failed \cup {Iteration}
    /\ completion' = Append(completion, Iteration)
    /\ pc' = "v1_check"
    /\ UNCHANGED <<variant, contentVars, outcome, thread>>

(***************************************************************************)
(* extract_triple_parallel: one check at line 247, then three times        *)
(* generate_content (line 263) and record_api_call (line 264) in turn; an  *)
(* exception leaves the loop and returns the empty extraction.             *)
(***************************************************************************)
SecStartParallel ==
    /\ pc = "start" /\ variant = "parallel"
    /\ IF can_make_request(usage_data)
       THEN /\ calls' = Admitted(1, "approved")
            /\ pc' = "par_call"
            /\ UNCHANGED outcome
       ELSE /\ calls' = Admitted(1, "denied")
            /\ pc' = "done"
            /\ outcome' = [NoOutcome EXCEPT !.kind = "extraction"]
    /\ UNCHANGED <<variant, contentVars, runVars, usage_data, thread>>

ParCallReturns ==
    /\ pc = "par_call" /\ Iteration \in Runs
    /\ calls' = Requested(Iteration)
    /\ pc' = "par_record"
    /\ UNCHANGED <<variant, contentVars, runVars, outcome, usage_data, thread>>

ParCallRaises ==
    /\ pc = "par_call" /\ Iteration \in Runs
    /\ calls' = Requested(Iteration)
    /\ pc' = "done"
    /\ outcome' = [NoOutcome EXCEPT !.kind = "extraction"]
    /\ UNCHANGED <<variant, contentVars, runVars, usage_data, thread>>

ParRecord ==
    /\ pc = "par_record"
    /\ usage_data' = Incremented(usage_data)
    /\ calls' = Written(Iteration)
    /\ results' = [results EXCEPT ![Iteration] = MedicalEntities(SecConcepts)]
    /\ completion' = Append(completion, Iteration)
    /\ pc' = "par_call"
    /\ UNCHANGED <<variant, contentVars, failed, outcome, thread>>

NextSecurity ==
    \/ SecStartV2
    \/ \E i \in Runs :
          \/ ThreadCheck(i)
          \/ ThreadCallReturns(i)
          \/ ThreadCallRaises(i)
          \/ ThreadRecordRead(i)
          \/ ThreadRecordWrite(i)
    \/ SecGathered
    \/ SecArbitration
    \/ SecStartV1
    \/ V1Check
    \/ V1CallReturns
    \/ V1CallRaises
    \/ V1InnerRecord
    \/ V1OuterRecord
    \/ SecStartParallel
    \/ ParCallReturns
    \/ ParCallRaises
    \/ ParRecord

SpecSecurity == InitSecurity /\ [][NextSecurity]_vars

(***************************************************************************)
(* The public methods of SNOMEDValidator called one after the other on one *)
(* validator (snomed_validator.py lines 47-198).  A table file is opened   *)
(* by _load_concepts (line 82) and _load_french_descriptions (line 110)    *)
(* when the glob found it.                                                 *)
(***************************************************************************)
MaxQueries == 3

QueryCodes == {c38, c51}
QueryTexts == {tAC, tB}

PyBool(b) == IF b THEN <<"True">> ELSE <<"False">>

\* the files load_snomed_data opens when called on v
Opened(v, source) ==
    IF v.loaded \/ ~source.hasConcepts THEN {}
    ELSE {"concepts"} \cup (IF source.hasDescriptions THEN {"descriptions"} ELSE {})

Data(v) == <<v.valid_concepts, v.french_terms, v.term_to_code>>

Query(name, arg, answer) ==
    /\ pc = "store"
    /\ Len(queries) < MaxQueries
    /\ validator' = AfterQuery(validator, src)
    /\ queries' = Append(queries,
                     [name |-> name, arg |-> arg, answer |-> answer,
                      opened |-> Opened(validator, src),
                      modified |-> Data(validator') # Data(validator)])
    /\ UNCHANGED <<secVars, pc, variant, src, runVars, validated, unique_terms, filterVars,
                   final_validated, semantic_time, outcome>>

QueryLoad ==
    Query("load_snomed_data", <<>>, PyBool(load_snomed_data(validator, src).loaded))

QueryValidateCode ==
    \E sctid \in QueryCodes :
        Query("validate_code", sctid, PyBool(validate_code(validator, src, sctid)))

QueryGetFrenchTerm ==
    \E sctid \in QueryCodes :
        Query("get_french_term", sctid, get_french_term(validator, src, sctid))

QueryFindCodeByTerm ==
    \E term \in QueryTexts :
        Query("find_code_by_term", term, find_code_by_term(validator, src, term))

QueryFindExactTermCode ==
    \E term \in QueryTexts :
        Query("find_exact_term_code", term, find_exact_term_code(validator, src, term))

InitStore ==
    /\ pc = "store"
    /\ variant = "store"
    /\ src \in Sources
    /\ validator = NewValidator
    /\ queries = <<>>
    /\ results = [i \in Runs |-> EmptyEntities]
    /\ completion = <<>>
    /\ failed = {}
    /\ validated = [i \in Runs |-> <<>>]
    /\ unique_terms = <<>>
    /\ term_pairs = <<>>
    /\ math_results = <<>>
    /\ reply = FailedReply("none")
    /\ requests = <<>>
    /\ semantic_results = <<>>
    /\ final_validated = <<>>
    /\ semantic_time = FALSE
    /\ outcome = NoOutcome
    /\ usage_data = NoUsage
    /\ thread = NoThreads
    /\ calls = NoCalls

NextStore ==
    \/ QueryLoad
    \/ QueryValidateCode
    \/ QueryGetFrenchTerm
    \/ QueryFindCodeByTerm
    \/ QueryFindExactTermCode

SpecStore == InitStore /\ [][NextStore]_vars

(***************************************************************************)
(* The V2 pipeline on the scenario of the chickenpox note: the store holds *)
(* the labels 'varicelle' (38907003) and 'éruption cutanée' (271807003),   *)
(* written here with "e'" for the accented letter, and each of the three   *)
(* runs returns the two candidates with these codes, in either order.  No  *)
(* pair needs semantic validation, so the filter is not called.            *)
(***************************************************************************)
varicelle == <<"v", "a", "r", "i", "c", "e", "l", "l", "e">>
eruption_cutanee ==
    <<"e'", "r", "u", "p", "t", "i", "o", "n", " ", "c", "u", "t", "a", "n", "e'", "e">>
c38907003 == <<"3", "8", "9", "0", "7", "0", "0", "3">>
c271807003 == <<"2", "7", "1", "8", "0", "7", "0", "0", "3">>

SrcVaricelle ==
    [hasConcepts |-> TRUE, hasDescriptions |-> TRUE,
     concepts |-> <<ConceptRow(c38907003, "1"), ConceptRow(c271807003, "1")>>,
     descriptions |-> <<DescRow(c38907003, "1", "fr", varicelle),
                        DescRow(c271807003, "1", "fr", eruption_cutanee)>>]

ScenarioReplies ==
    { <<Concept(varicelle, c38907003, "clinical_finding"),
        Concept(eruption_cutanee, c271807003, "clinical_finding")>>,
      <<Concept(eruption_cutanee, c271807003, "clinical_finding"),
        Concept(varicelle, c38907003, "clinical_finding")>> }

ScenarioRun(i) ==
    \E concepts \in ScenarioReplies :
        /\ RunEnds(i, concepts)
        /\ UNCHANGED failed

InitScenario ==
    /\ pc = "start"
    /\ variant = "v2"
    /\ src = SrcVaricelle
    /\ validator = NewValidator
    /\ queries = <<>>
    /\ results = [i \in Runs |-> EmptyEntities]
    /\ completion = <<>>
    /\ failed = {}
    /\ validated = [i \in Runs |-> <<>>]
    /\ unique_terms = <<>>
    /\ term_pairs = <<>>
    /\ math_results = <<>>
    /\ reply = FailedReply("none")
    /\ requests = <<>>
    /\ semantic_results = <<>>
    /\ final_validated = <<>>
    /\ semantic_time = FALSE
    /\ outcome = NoOutcome
    /\ usage_data = NoUsage
    /\ thread = NoThreads
    /\ calls = NoCalls

NextScenario ==
    \/ Start
    \/ \E i \in Runs : ScenarioRun(i)
    \/ ValidationPhase
    \/ FusionPhase
    \/ SemanticPhase
    \/ Phase5

SpecScenario == InitScenario /\ [][NextScenario]_vars

(***************************************************************************)
(* The validation loop of V2 (lines 549-654) taken run by run: each run    *)
(* proposes at most one candidate, a text with a code or 'UNKNOWN', and    *)
(* the runs are resolved in the order of enumerate(results), the first     *)
(* query loading the store.                                                *)
(***************************************************************************)
CascadeTexts == {tAB, tAC}
CascadeCodes == {c38, c71, UNKNOWN}

CascadeReplies ==
    {<<>>} \cup { <<Concept(term, code, "clinical_finding")>> :
                    term \in CascadeTexts, code \in CascadeCodes }

InitCascade ==
    /\ pc = "cascade"
    /\ variant = "cascade"
    /\ src \in Sources
    /\ validator = NewValidator
    /\ queries = <<>>
    /\ results \in [Runs -> { MedicalEntities(concepts) : concepts \in CascadeReplies }]
    /\ completion = <<>>
    /\ failed = {}
    /\ validated = [i \in Runs |-> <<>>]
    /\ unique_terms = <<>>
    /\ term_pairs = <<>>
    /\ math_results = <<>>
    /\ reply = FailedReply("none")
    /\ requests = <<>>
    /\ semantic_results = <<>>
    /\ final_validated = <<>>
    /\ semantic_time = FALSE
    /\ outcome = NoOutcome
    /\ usage_data = NoUsage
    /\ thread = NoThreads
    /\ calls = NoCalls

ResolveRun ==
    /\ pc = "cascade"
    /\ Iteration \in Runs
    /\ LET all_terms == AllTerms(results[Iteration])
       IN  /\ validated' = [validated EXCEPT ![Iteration] =
                                ValidateRun(validator, src, all_terms)]
           /\ validator' = IF all_terms # <<>> THEN AfterQuery(validator, src)
                           ELSE validator
    /\ completion' = Append(completion, Iteration)
    /\ UNCHANGED <<secVars, queries, pc, variant, src, results, failed, unique_terms,
                   filterVars, final_validated, semantic_time, outcome>>

NextCascade == ResolveRun

SpecCascade == InitCascade /\ [][NextCascade]_vars

(***************************************************************************)
(* The final deduplication (lines 778-812) alone, on every list of at most *)
(* MaxRecords records the filter may leave: final_validated is the list,   *)
(* and unique_terms keeps it as it was before the loop.                    *)
(***************************************************************************)
MaxRecords == 3

DedupRecords ==
    { Record(term, code, snomed_term) :
        term \in {tAB, tABup}, code \in {c38, c71}, snomed_term \in {tAB, tAC} }

InitDedup ==
    /\ pc = "dedup"
    /\ variant = "dedup"
    /\ src = SrcA
    /\ validator = NewValidator
    /\ queries = <<>>
    /\ results = [i \in Runs |-> EmptyEntities]
    /\ completion = <<>>
    /\ failed = {}
    /\ validated = [i \in Runs |-> <<>>]
    /\ unique_terms \in SeqsUpTo(DedupRecords, MaxRecords)
    /\ final_validated = unique_terms
    /\ term_pairs = <<>>
    /\ math_results = <<>>
    /\ reply = FailedReply("none")
    /\ requests = <<>>
    /\ semantic_results = <<>>
    /\ semantic_time = FALSE
    /\ outcome = NoOutcome
    /\ usage_data = NoUsage
    /\ thread = NoThreads
    /\ calls = NoCalls

DedupFinal ==
    /\ pc = "dedup"
    /\ final_validated' = FinalDedup(final_validated)
    /\ pc' = "dedup_done"
    /\ UNCHANGED <<secVars, queries, variant, storeVars, runVars, validated, unique_terms,
                   filterVars, semantic_time, outcome>>

NextDedup == DedupFinal

SpecDedup == InitDedup /\ [][NextDedup]_vars

(***************************************************************************)
(* Phase 5 of V2 (lines 824-890) on one surviving record, for every code   *)
(* of at most MaxDigits digits: the store holds the code as an active      *)
(* concept with the label 'ac', a run proposed 'ab' with it, and the       *)
(* filter accepted the pair.                                               *)
(***************************************************************************)
MaxDigits == 3

Digits == {"0", "1", "2", "3", "4", "5", "6", "7", "8", "9"}
DigitCodes == SeqsUpTo(Digits, MaxDigits) \ {<<>>}

SrcOf(code) ==
    [hasConcepts |-> TRUE, hasDescriptions |-> TRUE,
     concepts |-> <<ConceptRow(code, "1")>>,
     descriptions |-> <<DescRow(code, "1", "fr", tAC)>>]

InitCategory ==
    \E code \in DigitCodes :
        /\ pc = "phase5"
        /\ variant = "v2"
        /\ src = SrcOf(code)
        /\ validator = AfterQuery(NewValidator, src)
        /\ queries = <<>>
        /\ results = [i \in Runs |->
                         IF i = 1 THEN MedicalEntities(<<Concept(tAB, code, "clinical_finding")>>)
                         ELSE EmptyEntities]
        /\ completion = <<>>
        /\ failed = {}
        /\ validated = [i \in Runs |->
                           IF i = 1 THEN <<Record(tAB, code, tAC)>> ELSE <<>>]
        /\ unique_terms = <<Record(tAB, code, tAC)>>
        /\ term_pairs = <<<<tAB, tAC>>>>
        /\ math_results = MathResults(term_pairs)
        /\ reply = JsonReply(<<[paire |-> {1}, meme_concept |-> "true"]>>)
        /\ requests = <<term_pairs>>
        /\ semantic_results = ApplyLlm(math_results, <<1>>, llm_validate_batch(reply, 1))
        /\ final_validated = unique_terms
        /\ semantic_time = TRUE
        /\ outcome = NoOutcome
        /\ usage_data = NoUsage
        /\ thread = NoThreads
        /\ calls = NoCalls

NextCategory == Phase5

SpecCategory == InitCategory /\ [][NextCategory]_vars

(***************************************************************************)
(* parse_gemini_response (lines 201-215) on a bounded reply.  A reply is a *)
(* sequence of tokens: "{" and "}", "a" and "b" (two members of an object, *)
(* separators left out) and "t" (text that is no JSON).  json.loads        *)
(* accepts a sequence exactly when it is one object: it starts with "{",   *)
(* holds no "t", is closed by its last token and not before (else "Extra   *)
(* data").  The decoded object is represented by its members, which the    *)
(* callers read with get("concepts_medicaux", []) (lines 137 and 277).     *)
(***************************************************************************)
MaxText == 5

Tokens == {"{", "}", "a", "b", "t"}

ReplyTexts == SeqsUpTo(Tokens, MaxText)

Positions(text, token) == { k \in 1..Len(text) : text[k] = token }

\* braces open after the first k tokens
Depth(text, k) ==
    Cardinality({ j \in 1..k : text[j] = "{" }) - Cardinality({ j \in 1..k : text[j] = "}" })

\* json.loads(json_str) does not raise JSONDecodeError
json_loads_ok(json_str) ==
    /\ Len(json_str) >= 2
    /\ json_str[1] = "{"
    /\ Positions(json_str, "t") = {}
    /\ \A k \in 1..(Len(json_str) - 1) : Depth(json_str, k) > 0
    /\ Depth(json_str, Len(json_str)) = 0

Members(json_str) == SubSeq(json_str, 2, Len(json_str) - 1)

\* re.search(r'\{.*\}', response_text, re.DOTALL).group(): from the first "{"
\* to the last "}" after it; <<>> when there is no match
re_search(response_text) ==
    LET opens == Positions(response_text, "{")
        closes == { k \in Positions(response_text, "}") : opens # {} /\ k > MinOf(opens) }
    IN  IF closes = {} THEN <<>>
        ELSE SubSeq(response_text, MinOf(opens), MaxOf(closes))

parse_gemini_response(response_text) ==
    LET json_str == re_search(response_text)
    IN  IF json_str # <<>> /\ json_loads_ok(json_str)
        THEN Members(json_str)
        ELSE <<>>

InitParse ==
    /\ pc = "parse"
    /\ variant = "parse"
    /\ src = SrcA
    /\ validator = NewValidator
    /\ queries = <<>>
    /\ results = [i \in Runs |-> EmptyEntities]
    /\ completion = <<>>
    /\ failed = {}
    /\ validated = [i \in Runs |-> <<>>]
    /\ unique_terms = <<>>
    /\ final_validated = <<>>
    /\ term_pairs = <<>>
    /\ math_results = <<>>
    /\ reply \in ReplyTexts
    /\ requests = <<>>
    /\ semantic_results = <<>>
    /\ semantic_time = FALSE
    /\ outcome = NoOutcome
    /\ usage_data = NoUsage
    /\ thread = NoThreads
    /\ calls = NoCalls

ParseReply ==
    /\ pc = "parse"
    /\ outcome' = [kind |-> "parsed", concepts_medicaux |-> parse_gemini_response(reply)]
    /\ pc' = "parsed"
    /\ UNCHANGED <<secVars, queries, variant, storeVars, runVars, validated, unique_terms,
                   filterVars, final_validated, semantic_time>>

NextParse == ParseReply

SpecParse == InitParse /\ [][NextParse]_vars

(***************************************************************************)
(* validate_term_hybrid (test_semantic_validation_hybrid.py, lines         *)
(* 158-201) and llm_validate_medical_terms_batch (lines 72-156), whose     *)
(* calculate_math_score (lines 51-70) is the one of the extractor.  A      *)
(* Python dict is a function; the int key i of the batch results is the    *)
(* string of i, so that a lookup of the key 'valid' is a lookup among      *)
(* strings.  An entry of the reply carries paire (empty when absent: the   *)
(* default 0), synonymes ("true", "false" or "absent": the default False)  *)
(* and confiance (the set of a fraction, empty when absent: the default    *)
(* 0.5).                                                                   *)
(***************************************************************************)
pair_id(b) == ToString(b - 1)

\* dict.get(key, default)
DictGetOr(d, k, default) == IF k \in DOMAIN d THEN d[k] ELSE default

HybridEntries ==
    { [paire |-> p, synonymes |-> y, confiance |-> c] :
        p \in {{}, {0}, {1}, {2}}, y \in {"true", "false", "absent"},
        c \in {{}, {Frac(9, 10)}} }

HybridReplies ==
    { JsonReply(validations) : validations \in SeqsUpTo(HybridEntries, MaxEntries) }
    \cup { FailedReply(kind) : kind \in {"no_model", "raises", "no_json", "bad_json"} }

BatchVerdict(valid, confidence, reason) ==
    [valid |-> valid, confidence |-> confidence, reason |-> reason]

\* lines 114-122: the loop over the validations
RECURSIVE HybridBatchEntries(_, _, _)
HybridBatchEntries(batch_results, validations, n) ==
    IF validations = <<>> THEN batch_results
    ELSE LET validation == Head(validations)
             paire == IF validation.paire = {} THEN 0
                      ELSE CHOOSE x \in validation.paire : TRUE
             next ==
                IF 1 <= paire /\ paire <= n
                THEN DictSet(batch_results, pair_id(paire),
                        BatchVerdict(validation.synonymes = "true",
                                     IF validation.confiance = {} THEN Frac(1, 2)
                                     ELSE CHOOSE c \in validation.confiance : TRUE,
                                     "explication"))
                ELSE batch_results
         IN  HybridBatchEntries(next, Tail(validations), n)

llm_validate_medical_terms_batch(r, n) ==
    LET all(verdict) == [k \in { pair_id(b) : b \in 1..n } |-> verdict]
    IN  IF r.kind = "no_model"
        THEN all(BatchVerdict(FALSE, Frac(0, 1), "LLM non disponible"))
        ELSE IF n = 0 THEN EmptyDict
        ELSE IF r.kind = "raises" THEN all(BatchVerdict(FALSE, Frac(0, 1), "Erreur LLM"))
        ELSE IF r.kind = "no_json"
             THEN all(BatchVerdict(FALSE, Frac(3, 10), "Echec parsing JSON"))
        ELSE IF r.kind = "bad_json" THEN all(BatchVerdict(FALSE, Frac(3, 10), "Erreur JSON"))
        ELSE LET batch_results == HybridBatchEntries(EmptyDict, r.validations, n)
             IN  [k \in { pair_id(b) : b \in 1..n } |->
                    IF k \in DOMAIN batch_results THEN batch_results[k]
                    ELSE BatchVerdict(FALSE, Frac(1, 2), "Paire non trouvee dans la reponse")]

\* (math_score + confidence) / 2
Mean(s, c) == Frac(s.num * c.den + c.num * s.den, 2 * s.den * c.den)

validate_term_hybrid(gemini_term, official_term, r) ==
    LET math_score == calculate_math_score(gemini_term, official_term)
    IN  IF ScoreAtLeastHalf(math_score)
        THEN [validation_method |-> "mathematical", final_valid |-> TRUE,
              final_confidence |-> math_score]
        ELSE IF ScoreAtMostHundredth(math_score)
        THEN [validation_method |-> "mathematical", final_valid |-> FALSE,
              final_confidence |-> math_score]
        ELSE LET llm_result ==
                    llm_validate_medical_terms_batch(r, 1)
             IN  [validation_method |-> "hybrid",
                  final_valid |-> DictGetOr(llm_result, "valid", FALSE),
                  final_confidence |->
                      Mean(math_score, DictGetOr(llm_result, "confidence", Frac(1, 2)))]

InitHybrid ==
    /\ pc = "hybrid"
    /\ variant = "hybrid"
    /\ src = SrcA
    /\ validator = NewValidator
    /\ queries = <<>>
    /\ results = [i \in Runs |-> EmptyEntities]
    /\ completion = <<>>
    /\ failed = {}
    /\ validated = [i \in Runs |-> <<>>]
    /\ unique_terms = <<>>
    /\ final_validated = <<>>
    /\ term_pairs \in { <<pair>> : pair \in PairUniverse }
    /\ math_results = <<>>
    /\ reply = FailedReply("none")
    /\ requests = <<>>
    /\ semantic_results = <<>>
    /\ semantic_time = FALSE
    /\ outcome = NoOutcome
    /\ usage_data = NoUsage
    /\ thread = NoThreads
    /\ calls = NoCalls

\* one call of validate_term_hybrid; the oracle is asked for an ambiguous pair
\* only, and r is its reply
ValidateTermHybrid ==
    /\ pc = "hybrid"
    /\ \E r \in HybridReplies :
         /\ outcome' = validate_term_hybrid(term_pairs[1][1], term_pairs[1][2], r)
         /\ reply' = IF outcome'.validation_method = "hybrid" THEN r ELSE reply
         /\ requests' = IF outcome'.validation_method = "hybrid" THEN <<term_pairs>>
                        ELSE requests
    /\ pc' = "hybrid_done"
    /\ UNCHANGED <<secVars, queries, variant, storeVars, runVars, validated, unique_terms,
                   term_pairs, math_results, semantic_results, final_validated, semantic_time>>

NextHybrid == ValidateTermHybrid

SpecHybrid == InitHybrid /\ [][NextHybrid]_vars

(***************************************************************************)
(* Properties.                                                             *)
(***************************************************************************)
ResultEntities ==
    outcome.entities.findings \o outcome.entities.procedures
        \o outcome.entities.body_structures

Returned == pc = "done" /\ variant = "v2" /\ outcome.kind = "result"

Loadable(source) == source.hasConcepts /\ source.hasDescriptions

\* the active concepts of the concept table
ActiveConcepts(source) ==
    { source.concepts[k].id : k \in { j \in 1..Len(source.concepts) :
                                        source.concepts[j].active = "1" } }

\* the text is, ignoring case and surrounding blanks, an active French label of an
\* active concept of a loadable store
ExactLabel(source, text) ==
    /\ Loadable(source)
    /\ \E k \in 1..Len(source.descriptions) :
          LET row == source.descriptions[k]
          IN  /\ row.active = "1" /\ row.languageCode = "fr"
              /\ row.conceptId \in ActiveConcepts(source)
              /\ Strip(Lower(row.term)) = Strip(Lower(text))

\* the position in term_pairs of the pair of pool record k
PairPosition(k) ==
    Cardinality({ j \in 1..k :
                    Lower(unique_terms[j].term) # Lower(unique_terms[j].snomed_term) })

\* pool record k is identical to its official term ignoring case, or its own pair
\* was accepted by the score or by arbitration
OwnPairAccepted(k) ==
    \/ Lower(unique_terms[k].term) = Lower(unique_terms[k].snomed_term)
    \/ semantic_results[PairPosition(k)].valid

\* C1: whatever the runs returned and whatever the store holds, the V2 pipeline
\* (once admitted by the security check) returns a result with the entity lists
\* and the statistics, and does not raise.
C1_ReturnsResult ==
    (pc = "done" /\ variant = "v2" /\ outcome.kind # "error") => outcome.kind = "result"

\* C2: no two entities of a result of either fusion pipeline carry the same
\* snomed_code.
C2_NoDuplicateCodes ==
    (pc = "done" /\ outcome.kind \in {"result", "extraction"}) =>
        \A j, k \in 1..Len(ResultEntities) :
            j # k => ResultEntities[j].snomed_code # ResultEntities[k].snomed_code

\* a V2 result holding a code that two different runs resolved
C2_Witness ==
    /\ Returned
    /\ \E i, j \in Runs : \E k \in 1..Len(validated[i]) : \E l \in 1..Len(validated[j]) :
          /\ i # j
          /\ validated[i][k].snomed_code = validated[j][l].snomed_code
          /\ validated[i][k].term # validated[j][l].term
          /\ \E e \in 1..Len(ResultEntities) :
                ResultEntities[e].snomed_code = validated[i][k].snomed_code

\* C3: no two entities of a V2 result have the same lowercased original term; the
\* same holds of final_validated on the branch without semantic pairs and on the
\* branch with them.
C3_NoDuplicateTerms ==
    /\ (variant = "v2" /\ pc \in {"phase5", "done"}) =>
          \A j, k \in 1..Len(final_validated) :
              j # k => Lower(final_validated[j].term) # Lower(final_validated[k].term)
    /\ Returned =>
          \A j, k \in 1..Len(ResultEntities) :
              j # k => Lower(ResultEntities[j].term) # Lower(ResultEntities[k].term)

\* a V2 result from which the final deduplication removed an accepted record
C3_Witness ==
    /\ Returned
    /\ ResultEntities # <<>>
    /\ Len(ApplySemantic(validator, src, unique_terms,
              ValidationResults(EmptyDict, term_pairs, semantic_results)))
          > Len(final_validated)

\* C4: every record of the V2 cascade, and every entity of the result, has a code
\* of the store's active concepts.
C4_CodesActive ==
    variant = "v2" =>
        /\ \A i \in Runs : \A k \in 1..Len(validated[i]) :
              validated[i][k].snomed_code \in ActiveConcepts(src)
        /\ \A k \in 1..Len(unique_terms) :
              unique_terms[k].snomed_code \in ActiveConcepts(src)
        /\ \A k \in 1..Len(ResultEntities) :
              ResultEntities[k].snomed_code \in ActiveConcepts(src)

\* a V2 result with an entity resolved by exact match, whose proposed code was
\* not active, and an entity resolved by the oracle's code
C4_Witness ==
    /\ Returned
    /\ \E j, k \in 1..Len(ResultEntities) :
          /\ ExactLabel(src, ResultEntities[j].term)
          /\ \E i \in Runs : \E t \in 1..Len(AllTerms(results[i])) :
                /\ AllTerms(results[i])[t].term = ResultEntities[j].term
                /\ AllTerms(results[i])[t].snomed_code \notin ActiveConcepts(src)
          /\ ~ExactLabel(src, ResultEntities[k].term)

\* C5: every entity of a V2 result is a pool record whose own pair was accepted.
C5_OnlyAcceptedRecords ==
    Returned =>
        \A e \in 1..Len(ResultEntities) :
            \E k \in 1..Len(unique_terms) :
                /\ unique_terms[k].snomed_code = ResultEntities[e].snomed_code
                /\ unique_terms[k].term = ResultEntities[e].term
                /\ OwnPairAccepted(k)

\* C7: with a store that cannot be loaded, the V2 pipeline reports a failure of
\* its own: it neither returns an ordinary result nor ends the way a run that
\* found nothing ends (with the UnboundLocalError of line 886).
C7_UnloadableStoreReported ==
    (pc = "done" /\ variant = "v2" /\ outcome.kind # "error" /\ ~Loadable(src)) =>
        outcome.kind \notin {"result", "UnboundLocalError"}

\* the runs that resolved code c, and the first record with code c of a list
RunsWith(c) == { i \in Runs : c \in Codes(validated[i]) }
FirstWith(list, c) == list[MinOf({ k \in 1..Len(list) : list[k].snomed_code = c })]
PositionIn(order, i) == CHOOSE k \in 1..Len(order) : order[k] = i
FirstCompleted(S) ==
    CHOOSE i \in S : \A j \in S : PositionIn(completion, i) <= PositionIn(completion, j)

\* C8 (as claimed): the pool keeps, for each code, the record of the run that
\* completed first among the runs that resolved it.
C8_FirstCompletedWins ==
    (variant = "v2" /\ pc = "semantic") =>
        \A k \in 1..Len(unique_terms) :
            LET c == unique_terms[k].snomed_code
            IN  unique_terms[k] = FirstWith(validated[FirstCompleted(RunsWith(c))], c)

\* C8 (amended): the pool keeps, for each code, the record of the run with the
\* lowest index among the runs that resolved it, whatever the order of completion.
C8_LowestIndexWins ==
    (variant = "v2" /\ pc = "semantic") =>
        \A k \in 1..Len(unique_terms) :
            LET c == unique_terms[k].snomed_code
            IN  unique_terms[k] = FirstWith(validated[MinOf(RunsWith(c))], c)

\* a pool holding a code that two runs resolved with different records, the run
\* with the higher index having completed first
C8_Witness ==
    /\ variant = "v2" /\ pc = "semantic"
    /\ \E k \in 1..Len(unique_terms) :
          LET c == unique_terms[k].snomed_code
              lowest == MinOf(RunsWith(c))
              first == FirstCompleted(RunsWith(c))
          IN  /\ first # lowest
              /\ FirstWith(validated[first], c) # FirstWith(validated[lowest], c)
              /\ unique_terms[k] = FirstWith(validated[lowest], c)

\* C9: a candidate whose text exact-matches a store label keeps its text verbatim
\* as official term, in every record and in the entities of the result.
C9_ExactMatchKeepsText ==
    variant = "v2" =>
        /\ \A i \in Runs : \A k \in 1..Len(validated[i]) :
              ExactLabel(src, validated[i][k].term) =>
                  validated[i][k].snomed_term = validated[i][k].term
        /\ \A k \in 1..Len(unique_terms) :
              ExactLabel(src, unique_terms[k].term) =>
                  unique_terms[k].snomed_term = unique_terms[k].term
        /\ \A k \in 1..Len(final_validated) :
              ExactLabel(src, final_validated[k].term) =>
                  final_validated[k].snomed_term = final_validated[k].term
        /\ \A k \in 1..Len(ResultEntities) :
              ExactLabel(src, ResultEntities[k].term) =>
                  ResultEntities[k].snomed_term = ResultEntities[k].term

\* a V2 result with an entity whose text matches a label only after lowercasing
\* and trimming, and whose official term is that text
C9_Witness ==
    /\ Returned
    /\ \E k \in 1..Len(ResultEntities) :
          /\ ExactLabel(src, ResultEntities[k].term)
          /\ \A d \in 1..Len(src.descriptions) :
                src.descriptions[d].term # ResultEntities[k].term
          /\ ResultEntities[k].snomed_term = ResultEntities[k].term

\* the batch position of pair i among the ambiguous pairs
BatchPosition(i) ==
    Cardinality({ j \in 1..i : math_results[j].method = "hybrid" })

NamedTrue(b) ==
    /\ reply.kind = "json"
    /\ \E e \in 1..Len(reply.validations) :
          reply.validations[e].paire = {b} /\ reply.validations[e].meme_concept = "true"

C11_FailedRunContributesNothing ==
    (variant = "v2" /\ pc = "semantic") =>
        /\ \A i \in failed : AllTerms(results[i]) = <<>> /\ validated[i] = <<>>
        /\ \A j \in Runs : \A k \in 1..Len(validated[j]) :
              validated[j][k].snomed_code \in Codes(unique_terms)
        /\ \A k \in 1..Len(unique_terms) :
              \E j \in Runs \ failed : \E l \in 1..Len(validated[j]) :
                  unique_terms[k] = validated[j][l]

\* a pool built after the first run failed, holding a record of a later run
C11_Witness ==
    /\ variant = "v2" /\ pc = "semantic"
    /\ 1 \in failed
    /\ \E j \in Runs \ failed : validated[j] # <<>>
    /\ unique_terms # <<>>

\* C12: a run whose admission check answered negatively requests nothing
\* from the oracle, returns the empty extraction and leaves the usage
\* counters as they were.
C12_DeniedRunLeavesUsage ==
    \A i \in Runs :
        calls[i].admission = "denied" =>
            /\ calls[i].requests = 0
            /\ calls[i].writes = 0
            /\ results[i] = EmptyEntities

\* the unit has gone through its oracle request and what follows it
UnitDone(u) ==
    IF u = 0 THEN pc = "arbitrated" ELSE u \in Completed \ failed

\* C13: every oracle request that returned, of an extraction run of any
\* pipeline or of the arbitration, was approved by an admission check and
\* has been recorded exactly once.
C13_RequestsCheckedAndRecorded ==
    \A u \in 0..NumRuns :
        calls[u].requests > 0 /\ UnitDone(u) =>
            /\ calls[u].requests = 1
            /\ calls[u].admission = "approved"
            /\ calls[u].writes = 1

\* C14: the calls recorded for the current hour and the current day never
\* exceed hourly_limit and daily_limit.
C14_UsageWithinLimits ==
    /\ usage_data.hourly <= hourly_limit
    /\ usage_data.daily <= daily_limit

\* C15: during the concurrent runs of V2 no run writes a variable that
\* another run reads or writes.
C15_RunsShareNothing ==
    variant = "v2" =>
        \A i, j \in Runs :
            i # j => ~(calls[i].writes > 0 /\ calls[j].admission # "none")

\* the score of the pair is neither at least 0.5 nor at most 0.01
Ambiguous(pair) ==
    LET math_score == calculate_math_score(pair[1], pair[2])
    IN  ~ScoreAtLeastHalf(math_score) /\ ~ScoreAtMostHundredth(math_score)

RECURSIVE AmbiguousOf(_)
AmbiguousOf(pairs) ==
    IF pairs = <<>> THEN <<>>
    ELSE (IF Ambiguous(Head(pairs)) THEN <<Head(pairs)>> ELSE <<>>)
         \o AmbiguousOf(Tail(pairs))

AmbiguousInPool == AmbiguousOf(SemanticPairs(unique_terms))

\* C16: in an execution of V2 no arbitration request is made while the runs
\* execute or before the pool is fused; afterwards exactly one has been made
\* if the pool has ambiguous pairs, carrying all of them in the order of the
\* pool, and none if it has no ambiguous pair.
C16_OneArbitrationRequest ==
    variant = "v2" =>
        /\ Len(requests) <= 1
        /\ pc \in {"start", "extracting", "fusion", "semantic", "arbitration"}
              => requests = <<>>
        /\ pc \in {"apply", "phase5", "done"}
              => requests = IF AmbiguousInPool = <<>> THEN <<>> ELSE <<AmbiguousInPool>>

C16_Witness ==
    /\ variant = "v2" /\ pc = "done"
    /\ Len(requests) = 1
    /\ Len(requests[1]) = 2
    /\ outcome.kind = "result"

\* C17: after the first load attempt of a validator, made by its first query,
\* no later query or load_snomed_data call opens a table file or modifies
\* valid_concepts, french_terms or term_to_code.
C17_TablesReadOnce ==
    \A k \in 2..Len(queries) :
        queries[k].opened = {} /\ ~queries[k].modified

\* equality of fractions, and c = (s + a) / 2 for a fraction s and an integer a
FracEq(c, s) == c.num * s.den = s.num * c.den
FracIsAverage(c, s, a) == 2 * c.num * s.den = c.den * (s.num + a * s.den)

\* C19: in the results of the filter, the confidence of a pair decided by
\* the arbitration is the average of its lexical score and the arbitration
\* confidence (1.0 for a verdict true, 0.0 otherwise), and the confidence of
\* a pair decided by the score alone is the score.
C19_ConfidenceAveraged ==
    pc = "filter_done" =>
        \A i \in 1..Len(term_pairs) :
            LET math_score == calculate_math_score(term_pairs[i][1], term_pairs[i][2])
                result == semantic_results[i]
            IN  IF Ambiguous(term_pairs[i])
                THEN FracIsAverage(result.confidence, math_score,
                                   IF result.valid THEN 1 ELSE 0)
                ELSE FracEq(result.confidence, math_score)

\* C18: when the three runs each return 'varicelle' with 38907003 and
\* 'éruption cutanée' with 271807003, both labels of the store, V2 returns
\* a result with exactly 2 entities, each with its official term equal to its
\* original term, and the only records discarded are the 4 cross-run copies
\* (6 validated records, 2 in the pool and 2 after the filter).
C18_ScenarioResult ==
    pc = "done" =>
        /\ outcome.kind = "result"
        /\ Len(ResultEntities) = 2
        /\ \A k \in 1..Len(ResultEntities) :
              ResultEntities[k].snomed_term = ResultEntities[k].term
        /\ Len(validated[1]) + Len(validated[2]) + Len(validated[3]) = 6
        /\ Len(unique_terms) = 2
        /\ Len(final_validated) = 2

\* the candidate of a resolved run, and the code the cascade resolved it to
Proposed(i) == AllTerms(results[i])
ResolvedCode(i) == IF validated[i] = <<>> THEN None ELSE validated[i][1].snomed_code

BothResolved(i, j) ==
    /\ i \in Completed /\ j \in Completed
    /\ Proposed(i) # <<>> /\ Proposed(j) # <<>>

LabelRows(source) ==
    { k \in 1..Len(source.descriptions) :
        LET row == source.descriptions[k]
        IN  /\ row.active = "1" /\ row.languageCode = "fr"
            /\ row.conceptId \in ActiveConcepts(source) }

\* the code of the label the text matches: the last matching row of the table
LabelCode(source, text) ==
    source.descriptions[
        MaxOf({ k \in LabelRows(source) :
                  Strip(Lower(source.descriptions[k].term)) = Strip(Lower(text)) })].conceptId

HasLabel(source, code) ==
    Loadable(source) /\ \E k \in LabelRows(source) : source.descriptions[k].conceptId = code

\* the store's label for the code: the first of its rows in the table
FirstLabel(source, code) ==
    source.descriptions[
        MinOf({ k \in LabelRows(source) : source.descriptions[k].conceptId = code })].term

ValidActive(source, code) ==
    code # UNKNOWN /\ Loadable(source) /\ code \in ActiveConcepts(source)

\* C21 (as stated): a candidate whose text matches a label resolves to the
\* label's code whatever code was proposed; else a candidate whose proposed
\* code is valid and active is accepted with that code and the store's label
\* for it; else the fallback lookup finds nothing and the candidate is dropped.
C21_CascadeAcceptsValidCode ==
    \A i \in Completed :
        Proposed(i) # <<>> =>
            LET c == Proposed(i)[1]
            IN  IF ExactLabel(src, c.term)
                THEN validated[i] = <<Record(c.term, LabelCode(src, c.term), c.term)>>
                ELSE IF ValidActive(src, c.snomed_code)
                     THEN /\ validated[i] # <<>>
                          /\ validated[i][1].snomed_code = c.snomed_code
                          /\ HasLabel(src, c.snomed_code)
                                => validated[i][1].snomed_term = FirstLabel(src, c.snomed_code)
                     ELSE validated[i] = <<>>

\* C21 (amended): as above, but a candidate whose proposed code is valid and
\* active is accepted only if the store has a French label for the code, and
\* is dropped if it has none.
C21_CascadePriority ==
    \A i \in Completed :
        Proposed(i) # <<>> =>
            LET c == Proposed(i)[1]
            IN  IF ExactLabel(src, c.term)
                THEN validated[i] = <<Record(c.term, LabelCode(src, c.term), c.term)>>
                ELSE IF ValidActive(src, c.snomed_code) /\ HasLabel(src, c.snomed_code)
                     THEN validated[i] =
                             <<Record(c.term, c.snomed_code, FirstLabel(src, c.snomed_code))>>
                     ELSE validated[i] = <<>>

\* one run proposed a label of the store with another code, one a text that
\* is no label with a valid code that has a label, and one a text that is no
\* label with a valid code that has none or with no code
C21_Witness ==
    /\ Completed = Runs
    /\ \E i \in Runs :
          /\ Proposed(i) # <<>> /\ ExactLabel(src, Proposed(i)[1].term)
          /\ Proposed(i)[1].snomed_code # LabelCode(src, Proposed(i)[1].term)
          /\ validated[i] # <<>>
    /\ \E i \in Runs :
          /\ Proposed(i) # <<>> /\ ~ExactLabel(src, Proposed(i)[1].term)
          /\ validated[i] # <<>>
    /\ \E i \in Runs :
          /\ Proposed(i) # <<>> /\ ~ExactLabel(src, Proposed(i)[1].term)
          /\ validated[i] = <<>>

\* the positions in the list of the records whose original term is g in lowercase
GroupOf(list, g) == { k \in 1..Len(list) : Lower(list[k].term) = g }

Identical(record) == Lower(record.term) = Lower(record.snomed_term)

\* the record the final deduplication is to keep for the group
Preferred(list, g) ==
    LET group == GroupOf(list, g)
        same == { k \in group : Identical(list[k]) }
    IN  IF same # {} THEN list[MinOf(same)] ELSE list[MinOf(group)]

\* C22: after the final deduplication exactly one record is kept per group of
\* records with the same lowercase original term: the first of the group whose
\* official term is the original term ignoring case if there is one, else the
\* first of the group.
C22_DedupKeepsPreferred ==
    pc = "dedup_done" =>
        \A k \in 1..Len(unique_terms) :
            LET g == Lower(unique_terms[k].term)
                kept == GroupOf(final_validated, g)
            IN  /\ Cardinality(kept) = 1
                /\ \A j \in kept : final_validated[j] = Preferred(unique_terms, g)

\* a group whose first record differs from its official term and whose second
\* and third records do not
C22_Witness ==
    /\ pc = "dedup_done"
    /\ Len(unique_terms) = 3
    /\ \A k \in 1..3 : Lower(unique_terms[k].term) = Lower(unique_terms[1].term)
    /\ ~Identical(unique_terms[1])
    /\ Identical(unique_terms[2]) /\ Identical(unique_terms[3])
    /\ unique_terms[2] # unique_terms[3]
    /\ final_validated = <<unique_terms[2]>>

\* the rules of _categorize_by_snomed_code in the order of the chain
CategoryRules ==
    << <<"Clinical finding", FindingPrefixes>>, <<"Procedure", ProcedurePrefixes>>,
       <<"Body structure", BodyPrefixes>>, <<"Observable entity", ObservablePrefixes>>,
       <<"Substance", SubstancePrefixes>> >>

RulesMatching(code) ==
    { r \in 1..Len(CategoryRules) : \E p \in CategoryRules[r][2] : StartsWith(code, p) }

\* C23: the category assigned to a code is that of the first rule, in the
\* order clinical finding, procedure, body structure, observable entity,
\* substance, one of whose prefixes the code starts with, and 'Clinical
\* finding' when no rule matches.
C23_FirstMatchingRule ==
    Returned =>
        \A k \in 1..Len(ResultEntities) :
            LET matching == RulesMatching(ResultEntities[k].snomed_code)
            IN  ResultEntities[k].category =
                   IF matching = {} THEN "Clinical finding"
                   ELSE CategoryRules[MinOf(matching)][1]

\* a result with an entity whose code starts with prefixes of two rules, the
\* first of which is not the clinical finding rule
C23_Witness ==
    /\ Returned
    /\ \E k \in 1..Len(ResultEntities) :
          LET matching == RulesMatching(ResultEntities[k].snomed_code)
          IN  /\ Cardinality(matching) >= 2
              /\ 1 \notin matching
              /\ ResultEntities[k].category = CategoryRules[MinOf(matching)][1]

\* C24: every final entity is in exactly one of the three lists of the
\* result, in findings only if its category is clinical finding, in
\* procedures only if procedure and in body_structures only if body structure.
C24_PartitionByCategory ==
    Returned =>
        /\ Len(ResultEntities) = Len(final_validated)
        /\ \A k \in 1..Len(outcome.entities.findings) :
              outcome.entities.findings[k].category = "Clinical finding"
        /\ \A k \in 1..Len(outcome.entities.procedures) :
              outcome.entities.procedures[k].category = "Procedure"
        /\ \A k \in 1..Len(outcome.entities.body_structures) :
              outcome.entities.body_structures[k].category = "Body structure"

(***************************************************************************)
(* C25: a record of the pool whose original term and official term are     *)
(* equal after lowercasing is in no list of pairs scored (term_pairs,      *)
(* math_results being the scores of term_pairs) and in no arbitration      *)
(* request, and once the filter has been applied its term and code are in  *)
(* final_validated, whatever the decisions for the other pairs.            *)
(***************************************************************************)
IdenticalRecords ==
    { k \in 1..Len(unique_terms) :
        Lower(unique_terms[k].term) = Lower(unique_terms[k].snomed_term) }

PairOf(record) == <<record.term, record.snomed_term>>

C25_IdenticalAlwaysKept ==
    (variant = "v2" /\ pc \in {"arbitration", "apply", "phase5", "done"}) =>
        \A k \in IdenticalRecords :
            /\ \A p \in 1..Len(term_pairs) : term_pairs[p] # PairOf(unique_terms[k])
            /\ Len(math_results) = Len(term_pairs)
            /\ \A q \in 1..Len(requests) : \A b \in 1..Len(requests[q]) :
                  requests[q][b] # PairOf(unique_terms[k])
            /\ pc \in {"phase5", "done"} =>
                  \E e \in 1..Len(final_validated) :
                     /\ final_validated[e].term = unique_terms[k].term
                     /\ final_validated[e].snomed_code = unique_terms[k].snomed_code
                     /\ Lower(final_validated[e].snomed_term) = Lower(unique_terms[k].term)

\* an identical record kept while another record of the pool was rejected
\* after an arbitration
C25_Witness ==
    /\ variant = "v2" /\ pc = "done" /\ semantic_time
    /\ requests # <<>>
    /\ IdenticalRecords # {}
    /\ Len(final_validated) < Len(unique_terms)
    /\ \E k \in IdenticalRecords : \E e \in 1..Len(final_validated) :
          final_validated[e].snomed_code = unique_terms[k].snomed_code

(***************************************************************************)
(* C26: when the first balanced object of the reply (from the first "{"    *)
(* to the "}" closing it) is well formed, parse_gemini_response returns    *)
(* its members, whatever follows it in the reply.                          *)
(***************************************************************************)
\* the end of the first balanced object, 0 when the first "{" is never closed
FirstBalancedEnd(text) ==
    LET opens == Positions(text, "{")
        ends == { k \in 1..Len(text) :
                    /\ opens # {} /\ k > MinOf(opens)
                    /\ Depth(text, k) = 0 }
    IN  IF ends = {} THEN 0 ELSE MinOf(ends)

FirstBalanced(text) ==
    IF FirstBalancedEnd(text) = 0 THEN <<>>
    ELSE SubSeq(text, MinOf(Positions(text, "{")), FirstBalancedEnd(text))

C26_FirstObjectDecoded ==
    (pc = "parsed" /\ FirstBalanced(reply) # <<>> /\ json_loads_ok(FirstBalanced(reply))) =>
        outcome.concepts_medicaux = Members(FirstBalanced(reply))

(***************************************************************************)
(* C27: with the oracle's reply to each run index fixed, the pool and the  *)
(* result of V2 are the same under every interleaving of the three runs.   *)
(* A run that checks first is admitted and contributes the reply to its    *)
(* request; so in every interleaving a run that ends without candidates    *)
(* has made its request (and the request failed).                          *)
(***************************************************************************)
C27_SameUnderEveryInterleaving ==
    variant = "v2" =>
        \A i \in Runs :
            (thread[i].at = "done" /\ results[i] = EmptyEntities) => calls[i].requests > 0

(***************************************************************************)
(* C28: applying the arbitration reply leaves every pair decided by the    *)
(* score as the score decided it (validity, confidence and reason),        *)
(* whatever the entries of the reply, and gives the ambiguous pair at      *)
(* batch position b the verdict of the last entry naming b with a verdict  *)
(* (rejected when there is none): entries naming another position, no      *)
(* position or a position out of range change nothing for it.              *)
(***************************************************************************)
EntriesNaming(b) ==
    IF reply.kind # "json" THEN {}
    ELSE { e \in 1..Len(reply.validations) :
             reply.validations[e].paire = {b} /\ reply.validations[e].meme_concept # "null" }

C28_ArbitrationFrame ==
    pc = "filter_done" =>
        \A i \in 1..Len(term_pairs) :
            IF math_results[i].method = "mathematical"
            THEN semantic_results[i] = math_results[i]
            ELSE LET naming == EntriesNaming(BatchPosition(i))
                     verdict == /\ naming # {}
                                /\ reply.validations[MaxOf(naming)].meme_concept = "true"
                 IN  /\ semantic_results[i].valid = verdict
                     /\ semantic_results[i].confidence = Frac(IF verdict THEN 1 ELSE 0, 1)
                     /\ semantic_results[i].method = "hybrid"

\* a pair rejected by the score followed by an ambiguous pair, which a reply
\* accepts under number 1 next to an entry with a number out of range
C28_Witness ==
    /\ pc = "filter_done"
    /\ Len(term_pairs) = 2
    /\ math_results[1].method = "mathematical" /\ ~math_results[1].valid
    /\ math_results[2].method = "hybrid"
    /\ reply.kind = "json"
    /\ \E e \in 1..Len(reply.validations) : reply.validations[e].paire \in {{0}, {2}}
    /\ semantic_results[2].valid
    /\ ~semantic_results[1].valid

(***************************************************************************)
(* C29: no update of the counters is lost: every record_api_call that      *)
(* completes, in whatever thread, leaves the hourly and the daily counter  *)
(* one above their values just before it completed, so that k completed    *)
(* calls increase each counter by exactly k.                               *)
(***************************************************************************)
C29_NoLostUpdate ==
    [][(\E u \in DOMAIN calls : calls'[u].writes = calls[u].writes + 1)
          => usage_data' = Incremented(usage_data)]_vars

(***************************************************************************)
(* C30: validate_term_hybrid decides a pair whose score is strictly        *)
(* between 0.01 and 0.5 by the arbitration: final_valid is the validity of *)
(* the batch result for the pair, false when the reply does not name the   *)
(* pair or cannot be decoded.                                              *)
(***************************************************************************)
C30_HybridFollowsArbitration ==
    (pc = "hybrid_done" /\ Ambiguous(term_pairs[1])) =>
        outcome.final_valid = llm_validate_medical_terms_batch(reply, 1)[pair_id(1)].valid

====
